---- MODULE Spec2Model ----
(***************************************************************************)
(* Model of the PlaySpace -> Owl Practice synchronisation engine:          *)
(* fingerprinting (hashEntity), the ledger store (sync_records and         *)
(* sync_runs), the change detector (detectChanges) and the orchestrator    *)
(* (runSync) together with the destination adapter (OwlPracticeClient).    *)
(***************************************************************************)
EXTENDS Integers, Sequences, FiniteSets, TLC

(***************************************************************************)
(* Bounds of the model.                                                    *)
(***************************************************************************)
\* number of runSync invocations explored
MaxRuns == 2
\* number of faults of the environment explored, all kinds together: a
\* ledger write that throws, an adapter call that fails or throws, a client
\* id that cannot be read back, a failed connect, a lost session, a killed
\* process
MaxFaults == 1
\* number of edits of the source system's data between runs
MaxEdits == 1
\* number of ledger writes explored when the ledger store is checked alone
MaxWrites == 3

(***************************************************************************)
(* JavaScript values.                                                      *)
(***************************************************************************)
Undefined == "<undefined>"
Null == "<null>"

\* a ?? b
Coalesce(a, b) == IF a = Undefined \/ a = Null THEN b ELSE a

\* !value  for the strings, null and undefined used here
Falsy(v) == v = Undefined \/ v = Null \/ v = ""

(***************************************************************************)
(* Entities.  An entity is a JavaScript object: a sequence of              *)
(* <<key, value>> properties in insertion order, keys distinct.            *)
(***************************************************************************)
EntityTypes == <<"client", "appointment", "sessionNote">>

ClientIds == {"c1", "c2"}
AppointmentIds == {"a1"}
NoteIds == {"n1"}

\* the (sourceId, entityType) pairs of the source system
Keys == (ClientIds \X {"client"}) \cup (AppointmentIds \X {"appointment"})
          \cup (NoteIds \X {"sessionNote"})

Versions == {1, 2}

\* src/sync/playspace/mappers.ts mapClient
mapClient(sid, ver) ==
  << <<"id", sid>>, <<"firstName", "F-" \o sid>>, <<"lastName", "L-" \o sid>>,
     <<"email", IF ver = 1 THEN Undefined ELSE "new@mail">>,
     <<"source", "playspace">>, <<"sourceId", sid>> >>

mapAppointment(sid, ver) ==
  << <<"id", sid>>, <<"clientId", "c1">>, <<"startTime", "t0">>,
     <<"status", IF ver = 1 THEN "scheduled" ELSE "completed">>,
     <<"source", "playspace">>, <<"sourceId", sid>> >>

mapNote(sid, ver) ==
  << <<"id", sid>>, <<"clientId", "c1">>, <<"date", "d0">>,
     <<"content", IF ver = 1 THEN "" ELSE "text">>,
     <<"source", "playspace">>, <<"sourceId", sid>> >>

MapEntity(key, ver) ==
  IF key[2] = "client" THEN mapClient(key[1], ver)
  ELSE IF key[2] = "appointment" THEN mapAppointment(key[1], ver)
  ELSE mapNote(key[1], ver)

\* entity[k]  (undefined when the property is missing)
Get(entity, k) ==
  IF \E i \in 1..Len(entity) : entity[i][1] = k
  THEN entity[CHOOSE i \in 1..Len(entity) : entity[i][1] = k][2]
  ELSE Undefined

(***************************************************************************)
(* Fingerprinting: hashEntity and stableSortKeys.                          *)
(***************************************************************************)
\* the property names of the model in lexicographic (code unit) order,
\* the order Array.prototype.sort gives them
FieldOrder == <<"clientId", "content", "date", "email", "firstName", "id",
                "lastName", "source", "sourceId", "startTime", "status">>

KeyRank(k) == CHOOSE i \in 1..Len(FieldOrder) : FieldOrder[i] = k

\* a destructuring that leaves sourceId among the hashed properties
StripMetadata_keepsSourceId(entity) ==
  SelectSeq(entity, LAMBDA p : p[1] \notin {"id", "source"})

\* const { id, source, sourceId, ...relevant } = entity
StripMetadata(entity) ==
  SelectSeq(entity, LAMBDA p : p[1] \notin {"id", "source", "sourceId"})

RECURSIVE InsertSorted(_, _)
InsertSorted(sorted, p) ==
  IF sorted = <<>> THEN <<p>>
  ELSE IF KeyRank(p[1]) < KeyRank(Head(sorted)[1]) THEN <<p>> \o sorted
  ELSE <<Head(sorted)>> \o InsertSorted(Tail(sorted), p)

RECURSIVE SortProps(_)
SortProps(obj) ==
  IF obj = <<>> THEN <<>>
  ELSE InsertSorted(SortProps(Tail(obj)), Head(obj))

\* sorted[key] = val ?? null, keys in sorted order
stableSortKeys(obj) ==
  LET s == SortProps(obj)
  IN [i \in 1..Len(s) |-> <<s[i][1], Coalesce(s[i][2], Null)>>]

\* JSON.stringify of an object of strings and nulls: the text lists the
\* properties in order, a key then its value
RECURSIVE JsonStringify(_)
JsonStringify(obj) ==
  IF obj = <<>> THEN <<>>
  ELSE <<Head(obj)[1], Head(obj)[2]>> \o JsonStringify(Tail(obj))

\* createHash("sha256").update(text).digest("hex"): an injective digest
Sha256Hex(text) == <<"sha256">> \o text

hashEntity(entity) ==
  Sha256Hex(JsonStringify(stableSortKeys(StripMetadata(entity))))

(***************************************************************************)
(* Ledger store: sync_records.                                             *)
(***************************************************************************)
NoRecord == [absent |-> TRUE]

\* SELECT * FROM sync_records WHERE source_id = ? AND entity_type = ?
findRecord(led, sourceId, entityType) == led[<<sourceId, entityType>>]

\* an upsert that stores the reference it is given, null included
upsertRecord_overwritesReference(led, sourceId, entityType, dataHash, syncStatus, owlReference, errorMessage) ==
  [led EXCEPT ![<<sourceId, entityType>>] =
     [dataHash |-> dataHash, syncStatus |-> syncStatus,
      owlReference |-> Coalesce(owlReference, Null),
      errorMessage |-> Coalesce(errorMessage, Null)]]

\* an upsert that keeps the stored error message when it is given none
upsertRecord_keepsError(led, sourceId, entityType, dataHash, syncStatus, owlReference, errorMessage) ==
  LET key == <<sourceId, entityType>>
      old == led[key]
      ref == Coalesce(owlReference, Null)
      err == Coalesce(errorMessage, Null)
  IN IF old = NoRecord
     THEN [led EXCEPT ![key] = [dataHash |-> dataHash, syncStatus |-> syncStatus,
                                owlReference |-> ref, errorMessage |-> err]]
     ELSE [led EXCEPT ![key] = [dataHash |-> dataHash, syncStatus |-> syncStatus,
                                owlReference |-> IF ref # Null THEN ref ELSE old.owlReference,
                                errorMessage |-> IF err # Null THEN err ELSE old.errorMessage]]

\* INSERT ... ON CONFLICT(source_id, entity_type) DO UPDATE SET ...
upsertRecord(led, sourceId, entityType, dataHash, syncStatus, owlReference, errorMessage) ==
  LET key == <<sourceId, entityType>>
      old == led[key]
      ref == Coalesce(owlReference, Null)
      err == Coalesce(errorMessage, Null)
  IN IF old = NoRecord
     THEN [led EXCEPT ![key] = [dataHash |-> dataHash, syncStatus |-> syncStatus,
                                owlReference |-> ref, errorMessage |-> err]]
     ELSE [led EXCEPT ![key] = [dataHash |-> dataHash, syncStatus |-> syncStatus,
                                owlReference |-> IF ref # Null THEN ref ELSE old.owlReference,
                                errorMessage |-> err]]

markSynced(led, sourceId, entityType, dataHash, owlReference) ==
  upsertRecord(led, sourceId, entityType, dataHash, "synced", owlReference, Undefined)

\* markFailed that drops the error message
markFailed_noMessage(led, sourceId, entityType, dataHash, error) ==
  upsertRecord(led, sourceId, entityType, dataHash, "failed", Null, Null)

markFailed(led, sourceId, entityType, dataHash, error) ==
  upsertRecord(led, sourceId, entityType, dataHash, "failed", Null, error)

\* markPending(sourceId, entityType, hash): the entry becomes pending with
\* the given hash before delivery is attempted
markPending(led, sourceId, entityType, dataHash) ==
  upsertRecord(led, sourceId, entityType, dataHash, "pending", Undefined, Undefined)

(***************************************************************************)
(* Ledger store: sync_records as SQLite keeps it, a list of rows.          *)
(***************************************************************************)
\* an upsert whose conflict target is source_id alone
insertOrUpdate_conflictOnSourceId(tbl, sourceId, entityType, dataHash, syncStatus, owlReference, errorMessage, now) ==
  LET excluded == [id |-> Len(tbl) + 1, source_id |-> sourceId, entity_type |-> entityType,
                   data_hash |-> dataHash, sync_status |-> syncStatus,
                   owl_reference |-> Coalesce(owlReference, Null),
                   error_message |-> Coalesce(errorMessage, Null),
                   last_synced_at |-> now, created_at |-> now, updated_at |-> now]
      conflict(r) == r.source_id = sourceId
  IN IF \E i \in 1..Len(tbl) : conflict(tbl[i])
     THEN [i \in 1..Len(tbl) |->
             IF conflict(tbl[i])
             THEN [tbl[i] EXCEPT !.data_hash = excluded.data_hash,
                                 !.sync_status = excluded.sync_status,
                                 !.owl_reference = Coalesce(excluded.owl_reference, @),
                                 !.error_message = excluded.error_message,
                                 !.last_synced_at = excluded.last_synced_at,
                                 !.updated_at = excluded.updated_at]
             ELSE tbl[i]]
     ELSE Append(tbl, excluded)

\* the statement of upsertRecord run on the table at time now:
\* INSERT INTO sync_records (...) VALUES (...)
\* ON CONFLICT(source_id, entity_type) DO UPDATE SET data_hash, sync_status,
\*   owl_reference = COALESCE(excluded.owl_reference, sync_records.owl_reference),
\*   error_message, last_synced_at, updated_at
insertOrUpdate(tbl, sourceId, entityType, dataHash, syncStatus, owlReference, errorMessage, now) ==
  LET excluded == [id |-> Len(tbl) + 1, source_id |-> sourceId, entity_type |-> entityType,
                   data_hash |-> dataHash, sync_status |-> syncStatus,
                   owl_reference |-> Coalesce(owlReference, Null),
                   error_message |-> Coalesce(errorMessage, Null),
                   last_synced_at |-> now, created_at |-> now, updated_at |-> now]
      conflict(r) == r.source_id = sourceId /\ r.entity_type = entityType
  IN IF \E i \in 1..Len(tbl) : conflict(tbl[i])
     THEN [i \in 1..Len(tbl) |->
             IF conflict(tbl[i])
             THEN [tbl[i] EXCEPT !.data_hash = excluded.data_hash,
                                 !.sync_status = excluded.sync_status,
                                 !.owl_reference = Coalesce(excluded.owl_reference, @),
                                 !.error_message = excluded.error_message,
                                 !.last_synced_at = excluded.last_synced_at,
                                 !.updated_at = excluded.updated_at]
             ELSE tbl[i]]
     ELSE Append(tbl, excluded)

\* the rows a SELECT ... WHERE source_id = ? AND entity_type = ? matches
matchingRows(tbl, sourceId, entityType) ==
  SelectSeq(tbl, LAMBDA r : r.source_id = sourceId /\ r.entity_type = entityType)

\* findRecord on the table: .get() takes the first matching row, and
\* toSyncRecord renames its columns
toSyncRecord(tbl, sourceId, entityType) ==
  LET rows == matchingRows(tbl, sourceId, entityType)
  IN IF rows = <<>> THEN NoRecord
     ELSE [dataHash |-> rows[1].data_hash, syncStatus |-> rows[1].sync_status,
           owlReference |-> rows[1].owl_reference, errorMessage |-> rows[1].error_message]

\* a database opened by dropping and creating its tables
getDatabase_recreatesTables(db) ==
  [records |-> [k \in DOMAIN db.records |-> NoRecord],
   runs |-> [r \in DOMAIN db.runs |-> [absent |-> TRUE]]]

\* getDatabase(): the first call opens the file and executes SCHEMA, whose
\* CREATE TABLE IF NOT EXISTS statements leave existing rows as they are
getDatabase(db) == db

(***************************************************************************)
(* Change detector.                                                        *)
(***************************************************************************)
\* the classification by hash alone, ignoring an interrupted delivery
Classify_hashOnly(existing, hash) ==
  IF existing = NoRecord THEN "new"
  ELSE IF existing.dataHash # hash THEN "changed"
  ELSE "unchanged"

\* a classification that also retries a failed delivery
Classify_retriesFailed(existing, hash) ==
  IF existing = NoRecord THEN "new"
  ELSE IF existing.dataHash # hash \/ existing.syncStatus \in {"pending", "failed"}
  THEN "changed"
  ELSE "unchanged"

\* the branch detectChanges takes for one entity
Classify(existing, hash) ==
  IF existing = NoRecord THEN "new"
  ELSE IF existing.dataHash # hash \/ existing.syncStatus = "pending" THEN "changed"
  ELSE "unchanged"

detectChanges(led, entities, entityType) ==
  LET cls(e) == Classify(findRecord(led, Get(e, "sourceId"), entityType), hashEntity(e))
  IN [new |-> SelectSeq(entities, LAMBDA e : cls(e) = "new"),
      changed |-> SelectSeq(entities, LAMBDA e : cls(e) = "changed"),
      unchanged |-> SelectSeq(entities, LAMBDA e : cls(e) = "unchanged")]

\* src/sync/index.ts detectAllChanges
detectAllChanges(led, data) ==
  [clients |-> detectChanges(led, data.clients, "client"),
   appointments |-> detectChanges(led, data.appointments, "appointment"),
   sessionNotes |-> detectChanges(led, data.sessionNotes, "sessionNote")]

\* inline data taken as already delivered
dataAsNewChanges_allUnchanged(data) ==
  [clients |-> [new |-> <<>>, changed |-> <<>>, unchanged |-> data.clients],
   appointments |-> [new |-> <<>>, changed |-> <<>>, unchanged |-> data.appointments],
   sessionNotes |-> [new |-> <<>>, changed |-> <<>>, unchanged |-> data.sessionNotes]]

\* src/sync/index.ts dataAsNewChanges
dataAsNewChanges(data) ==
  [clients |-> [new |-> data.clients, changed |-> <<>>, unchanged |-> <<>>],
   appointments |-> [new |-> data.appointments, changed |-> <<>>, unchanged |-> <<>>],
   sessionNotes |-> [new |-> data.sessionNotes, changed |-> <<>>, unchanged |-> <<>>]]

(***************************************************************************)
(* Ledger store: sync_runs.                                                *)
(***************************************************************************)
NoRun == [absent |-> TRUE]
\* counts_json of a run that has not completed: "{}"
EmptyCounts == [empty |-> TRUE]

RunIds == 1..MaxRuns

\* INSERT INTO sync_runs (...) VALUES (..., "[]", "{}", "running")
createRun(rs, runId, mode, dryRun) ==
  [rs EXCEPT ![runId] = [mode |-> mode, dryRun |-> dryRun, entitiesSynced |-> {},
                         counts |-> EmptyCounts, status |-> "running",
                         completedAt |-> Null]]

\* completeRun that leaves the status column as it is
completeRun_keepsStatus(rs, runId, entitiesSynced, counts, status) ==
  IF rs[runId] = NoRun THEN rs
  ELSE [rs EXCEPT ![runId] = [@ EXCEPT !.completedAt = "now",
                                       !.entitiesSynced = entitiesSynced,
                                       !.counts = counts]]

\* UPDATE sync_runs SET completed_at, entities_synced, counts_json, status
\* WHERE run_id = ?
completeRun(rs, runId, entitiesSynced, counts, status) ==
  IF rs[runId] = NoRun THEN rs
  ELSE [rs EXCEPT ![runId] = [@ EXCEPT !.completedAt = "now",
                                       !.entitiesSynced = entitiesSynced,
                                       !.counts = counts,
                                       !.status = status]]

(***************************************************************************)
(* Orchestrator helpers (src/sync/index.ts).                               *)
(***************************************************************************)
CountAction(results, action) ==
  Cardinality({i \in 1..Len(results) : results[i].action = action})

\* a summary that leaves the failed results out of its counts
buildSummary_dropsFailed(runId, results) ==
  [runId |-> runId, results |-> results,
   counts |-> [created |-> CountAction(results, "created"),
               updated |-> CountAction(results, "updated"),
               skipped |-> CountAction(results, "skipped"),
               failed |-> 0]]

buildSummary(runId, results) ==
  [runId |-> runId, results |-> results,
   counts |-> [created |-> CountAction(results, "created"),
               updated |-> CountAction(results, "updated"),
               skipped |-> CountAction(results, "skipped"),
               failed |-> CountAction(results, "failed")]]

\* a SyncResult
Result(entity, sourceId, action, owlReference, error) ==
  [entity |-> entity, sourceId |-> sourceId, action |-> action,
   owlReference |-> owlReference, error |-> error]

\* the result pushed by the catch block of an item
CaughtResult(entity, sourceId, message) ==
  Result(entity, sourceId, "failed", Undefined, message)

\* a run that records a skipped item as synced without its fingerprint
recordResult_skipStaleHash(led, result, entity) ==
  LET hash == hashEntity(entity)
      old == findRecord(led, Get(entity, "sourceId"), result.entity)
  IN IF result.action \in {"created", "updated"}
     THEN markSynced(led, Get(entity, "sourceId"), result.entity, hash, result.owlReference)
     ELSE IF result.action = "skipped"
     THEN markSynced(led, Get(entity, "sourceId"), result.entity,
                     IF old = NoRecord THEN hash ELSE <<"stale">>, result.owlReference)
     ELSE IF result.action = "failed"
     THEN markFailed(led, Get(entity, "sourceId"), result.entity, hash,
                     Coalesce(result.error, "Unknown error"))
     ELSE led

\* a run that leaves the entry of an item the adapter reported failed as it is
recordResult_ignoresFailed(led, result, entity) ==
  IF result.action \in {"created", "updated", "skipped"}
  THEN markSynced(led, Get(entity, "sourceId"), result.entity, hashEntity(entity),
                  result.owlReference)
  ELSE led

\* a run that writes nothing to the ledger after the adapter has answered
recordResult_writesNothing(led, result, entity) == led

\* recordResult: the ledger write for an adapter result
recordResult(led, result, entity) ==
  LET hash == hashEntity(entity)
  IN IF result.action \in {"created", "updated", "skipped"}
     THEN markSynced(led, Get(entity, "sourceId"), result.entity, hash, result.owlReference)
     ELSE IF result.action = "failed"
     THEN markFailed(led, Get(entity, "sourceId"), result.entity, hash,
                     Coalesce(result.error, "Unknown error"))
     ELSE led

\* the loop without the markPending call
PendingWrite_skipped(led, key, hash, useLedger) == led

\* a loop that calls markPending whether or not the run is ledger-backed
PendingWrite_always(led, key, hash, useLedger) ==
  markPending(led, key[1], key[2], hash)

\* if (useLedger) markPending(entity.sourceId, type, hash)
PendingWrite(led, key, hash, useLedger) ==
  IF useLedger THEN markPending(led, key[1], key[2], hash) ELSE led

\* the client loop going through every unchanged client again, whether or
\* not its ledger entry has a reference
PhaseItems_backfillAll(p, chg, led, useLedger) ==
  IF p = 1
  THEN chg.clients.new \o chg.clients.changed \o
       (IF useLedger THEN chg.clients.unchanged ELSE <<>>)
  ELSE IF p = 2 THEN chg.appointments.new \o chg.appointments.changed
  ELSE chg.sessionNotes.new \o chg.sessionNotes.changed

\* a client loop without the backfill of missing references
PhaseItems_noBackfill(p, chg, led, useLedger) ==
  IF p = 1 THEN chg.clients.new \o chg.clients.changed
  ELSE IF p = 2 THEN chg.appointments.new \o chg.appointments.changed
  ELSE chg.sessionNotes.new \o chg.sessionNotes.changed

\* the items of one entity type, built when its loop is entered
PhaseItems(p, chg, led, useLedger) ==
  IF p = 1
  THEN chg.clients.new \o chg.clients.changed \o
       (IF useLedger
        THEN SelectSeq(chg.clients.unchanged,
               LAMBDA c : LET record == findRecord(led, Get(c, "sourceId"), "client")
                          IN record = NoRecord \/ Falsy(record.owlReference))
        ELSE <<>>)
  ELSE IF p = 2 THEN chg.appointments.new \o chg.appointments.changed
  ELSE chg.sessionNotes.new \o chg.sessionNotes.changed

NumPhases == 3

\* the three loops in another order: clients, session notes, appointments
NextPhase_notesSecond(p) == IF p = 1 THEN 3 ELSE IF p = 3 THEN 2 ELSE NumPhases + 1

\* the loop that follows the loop of EntityTypes[p] in runSync
NextPhase(p) == p + 1

\* the entity types a run may select
AllTypes == {EntityTypes[i] : i \in 1..NumPhases}

\* the requests explored: the full run route or CLI ("run", ledger-backed)
\* and the inline-data trigger route ("trigger", runSyncFromData)
Requests ==
  [path : {"run"}, dryRun : {FALSE},
   entities : {AllTypes, {"client"}, {"appointment", "sessionNote"}}]
  \cup [path : {"run"}, dryRun : {TRUE}, entities : {AllTypes}]
  \cup [path : {"trigger"}, dryRun : BOOLEAN, entities : {AllTypes}]

\* loops that run for every entity type, selected or not
RECURSIVE EnterPhase_allTypes(_, _, _, _)
EnterPhase_allTypes(p, o, chg, led) ==
  IF p > NumPhases THEN [phase |-> p, items |-> <<>>]
  ELSE IF PhaseItems(p, chg, led, o.useLedger) # <<>>
  THEN [phase |-> p, items |-> PhaseItems(p, chg, led, o.useLedger)]
  ELSE EnterPhase_allTypes(NextPhase(p), o, chg, led)

\* the first entity type at or after p that is selected and has an item to
\* process; NumPhases + 1 when the loops are over
RECURSIVE EnterPhase(_, _, _, _)
EnterPhase(p, o, chg, led) ==
  IF p > NumPhases THEN [phase |-> p, items |-> <<>>]
  ELSE IF EntityTypes[p] \in o.entities /\ PhaseItems(p, chg, led, o.useLedger) # <<>>
  THEN [phase |-> p, items |-> PhaseItems(p, chg, led, o.useLedger)]
  ELSE EnterPhase(NextPhase(p), o, chg, led)

\* a dry run that goes on to the push
SkipsPush_never(dryRun) == FALSE

\* if (dryRun) { ... return summary }
SkipsPush(dryRun) == dryRun

\* a catch block that records the run as completed
CaughtRunStatus_completed == "completed"

\* the status the catch block of the run passes to completeRun
CaughtRunStatus == "failed"

\* a loop that starts the adapter operation and goes on without waiting
AwaitAdapter_fireAndForget == "item"

\* result = await owl.createOrUpdateClient(client): the loop waits for the
\* adapter operation it started
AwaitAdapter == "calling"

\* a response that reports every run as completed
ResponseStatus_alwaysCompleted(counts) == "completed"

\* status: summary.counts.failed > 0 ? "completed_with_errors" : "completed"
ResponseStatus(counts) ==
  IF counts.failed > 0 THEN "completed_with_errors" ELSE "completed"

\* NextResponse.json of a run that returned its summary; the inline-data
\* route answers 207 when an item failed
RouteResponse(useLedger, summ) ==
  [http |-> IF ~useLedger /\ summ.counts.failed > 0 THEN 207 ELSE 200,
   status |-> ResponseStatus(summ.counts),
   summary |-> summ]

\* NextResponse.json({ error: "Sync failed", message }, { status: 500 })
ErrorResponse(message) == [http |-> 500, error |-> "Sync failed", message |-> message]

\* a loop that gives up at the first failed item
AfterItem_abortOnFailed(r) == IF r.action = "failed" THEN "abort" ELSE "continue"

\* what the loop does after an item whose result is r: it goes on with the
\* next item whatever the result
AfterItem(r) == "continue"

(***************************************************************************)
(* Destination adapter (OwlPracticeClient).                                *)
(***************************************************************************)
ThrowMsg == "session error"
UiErrorMsg == "ui error"
LedgerErrMsg == "ledger error"
NoClientMsg == "Owl client ID not found - sync clients first"

\* the Owl id of a client, as found by the name search or read after create
OwlId(sid) == "owl-" \o sid

\* what the remote application does during one adapter call: the operation
\* works ("ok"; "ok_noid" when the id of a created client cannot be read
\* back), fails inside the adapter's try block ("ui_error"), or
\* ensureLoggedIn throws before it ("throw")
Responses(entityType) ==
  IF entityType = "client" THEN {"ok", "ok_noid", "ui_error", "throw"}
  ELSE {"ok", "ui_error", "throw"}

Thrown == [thrown |-> TRUE]

\* dest is the set of (sourceId, entityType) that exist in Owl Practice
createOrUpdateClient(led, dest, client, w) ==
  LET sid == Get(client, "sourceId")
      ledgerRecord == findRecord(led, sid, "client")
  IN IF w = "throw" THEN Thrown
     ELSE IF ledgerRecord # NoRecord /\ ledgerRecord.syncStatus = "synced"
             /\ ~Falsy(ledgerRecord.owlReference)
     THEN Result("client", sid, "skipped", ledgerRecord.owlReference, Undefined)
     ELSE IF w = "ui_error" THEN Result("client", sid, "failed", Undefined, UiErrorMsg)
     ELSE IF <<sid, "client">> \in dest
     THEN Result("client", sid, "skipped", OwlId(sid), Undefined)
     ELSE IF w = "ok" THEN Result("client", sid, "created", OwlId(sid), Undefined)
     ELSE Result("client", sid, "created", Undefined, Undefined)

createOrUpdateAppointment(led, dest, appointment, w) ==
  LET sid == Get(appointment, "sourceId")
  IN IF w = "throw" THEN Thrown
     ELSE IF w = "ui_error" THEN Result("appointment", sid, "failed", Undefined, UiErrorMsg)
     ELSE IF <<sid, "appointment">> \in dest
     THEN Result("appointment", sid, "updated", Undefined, Undefined)
     ELSE Result("appointment", sid, "created", Undefined, Undefined)

pushSessionNote(led, dest, note, w) ==
  LET sid == Get(note, "sourceId")
      clientId == Get(note, "clientId")
      clientRecord == IF Falsy(clientId) THEN NoRecord ELSE findRecord(led, clientId, "client")
      owlClientId == IF clientRecord # NoRecord /\ ~Falsy(clientRecord.owlReference)
                     THEN clientRecord.owlReference ELSE Undefined
  IN IF w = "throw" THEN Thrown
     ELSE IF w = "ui_error" THEN Result("sessionNote", sid, "failed", Undefined, UiErrorMsg)
     ELSE IF <<sid, "sessionNote">> \in dest
     THEN Result("sessionNote", sid, "skipped", Undefined, Undefined)
     ELSE IF Falsy(owlClientId)
     THEN Result("sessionNote", sid, "failed", Undefined, NoClientMsg)
     ELSE Result("sessionNote", sid, "created", Undefined, Undefined)

\* the adapter operation runSync invokes for an item of phase p
AdapterCall(p, led, dest, entity, w) ==
  IF p = 1 THEN createOrUpdateClient(led, dest, entity, w)
  ELSE IF p = 2 THEN createOrUpdateAppointment(led, dest, entity, w)
  ELSE pushSessionNote(led, dest, entity, w)

(***************************************************************************)
(* State.                                                                  *)
(***************************************************************************)
VARIABLES
  source,        \* the source system: version of each record's content
  edits,         \* number of edits made to the source system
  ledger,        \* sync_records: (sourceId, entityType) -> row or NoRecord
  runs,          \* sync_runs: runId -> row or NoRun
  runId,         \* number of runSync invocations so far; id of the current run
  pc,            \* position of runSync
  opts,          \* SyncOptions of the current run
  changes,       \* DetectedChanges handed to runSync
  phase,         \* index in EntityTypes of the loop being executed
  items,         \* items of that loop
  idx,           \* index of the current item
  results,       \* results: SyncResult[]
  session,       \* OwlPracticeClient.session: "null" or "held"
  lost,          \* the remote browser session is no longer usable
  runErr,        \* the run-level error being propagated, or Null
  outcome,       \* how the last runSync ended: "none", "returned", "threw"
  summary,       \* the summary returned by the last runSync
  faults,        \* faults of the environment so far
  owl,           \* the (sourceId, entityType) that exist in Owl Practice
  startLedger,   \* history: the ledger when the current run started
  calls,         \* history: keys handed to the adapter in this run, in order
  thrown,        \* history: keys whose adapter call threw in this run
  runFaulted,    \* history: a ledger write threw in this run
  crashedKey,    \* history: item in flight when the process was last killed
  lastWrite,     \* history: status and key of the last sync_records write
  createCount,   \* history: createRun calls per run id
  finalizeCount, \* history: completeRun calls per run id
  disconnects,   \* history: closeBrowserSession calls in this run
  browser,       \* browser resources of this run: "none" or "open"
  connects,      \* history: owl.connect calls in this run
  disconnectCalls, \* history: owl.disconnect calls in this run
  marked,        \* history: markPending was called in this run
  table,         \* sync_records as a list of rows, for the ledger operations alone
  log,           \* history: the ledger operations applied to table, in order
  fetchStep,     \* source requests of fetchPlaySpaceData that have returned
  snapshot,      \* history: the database just before detectAllChanges ran
  response,      \* what the caller of the request got: NoResponse until it ends
  overlapResponse, \* what a request made during this run got
  inFlight,      \* history: adapter operations started and not yet ended
  used,          \* run ids generated so far
  skipped,       \* history: the entries last written for a skipped result
  req,           \* a PlaySpaceClient and the request it is serving, for request alone
  recA, recB,    \* two records handed to hashEntity, for the fingerprint alone
  hashA, hashB   \* their fingerprints, NoHash until computed

vars == <<source, edits, ledger, runs, runId, pc, opts, changes, phase, items, idx,
          results, session, lost, runErr, outcome, summary, faults, owl,
          startLedger, calls, thrown, runFaulted, crashedKey, lastWrite,
          createCount, finalizeCount, disconnects, browser, connects,
          disconnectCalls, marked, table, log, fetchStep, snapshot, response,
          overlapResponse, inFlight, used, skipped, req, recA, recB, hashA, hashB>>

hashVars == <<recA, recB, hashA, hashB>>

NoSnapshot == [absent |-> TRUE]
NoResponse == [absent |-> TRUE]
NoHash == <<>>

NoKey == <<"", "">>
NoSummary == [absent |-> TRUE]
NoChanges == dataAsNewChanges([clients |-> <<>>, appointments |-> <<>>, sessionNotes |-> <<>>])

\* the order in which a fetch lists the records of the source system
ClientOrder == <<"c1", "c2">>
AppointmentOrder == <<"a1">>
NoteOrder == <<"n1">>

\* the source requests of one fetchPlaySpaceData: getClients together with
\* getAppointments, then getSessionNotes for each client
NumFetchSteps == 1 + Len(ClientOrder)

\* a fetch that is taken as complete once the clients and appointments are in
FetchComplete_afterFirst(n) == n >= 1

\* every source request of fetchPlaySpaceData has returned
FetchComplete(n) == n = NumFetchSteps

FetchErrMsg == "fetch error"

\* a handler that goes on to change detection after a failed fetch
OnFetchError_goesOn == "detected"

\* await fetchPlaySpaceData(...) throws: control leaves the try block for the
\* catch of the handler, past detectAllChanges and runSync
OnFetchError == "fetch_failed"

\* fetchPlaySpaceData: the current records of the source system
fetchPlaySpaceData(src) ==
  [clients |-> [i \in 1..Len(ClientOrder) |->
                  mapClient(ClientOrder[i], src[<<ClientOrder[i], "client">>])],
   appointments |-> [i \in 1..Len(AppointmentOrder) |->
                  mapAppointment(AppointmentOrder[i], src[<<AppointmentOrder[i], "appointment">>])],
   sessionNotes |-> [i \in 1..Len(NoteOrder) |->
                  mapNote(NoteOrder[i], src[<<NoteOrder[i], "sessionNote">>])]]

ItemKey == <<Get(items[idx], "sourceId"), EntityTypes[phase]>>

\* the state of the orchestrator before the first run
InitRun ==
  /\ source = [k \in Keys |-> 1]
  /\ edits = 0
  /\ runs = [r \in RunIds |-> NoRun]
  /\ runId = 0
  /\ pc = "idle"
  /\ opts = [dryRun |-> FALSE, useLedger |-> FALSE, entities |-> {}]
  /\ changes = NoChanges
  /\ phase = 0
  /\ items = <<>>
  /\ idx = 0
  /\ results = <<>>
  /\ session = "null"
  /\ lost = FALSE
  /\ runErr = Null
  /\ outcome = "none"
  /\ summary = NoSummary
  /\ faults = 0
  /\ owl = {}
  /\ startLedger = ledger
  /\ calls = <<>>
  /\ thrown = {}
  /\ runFaulted = FALSE
  /\ crashedKey = NoKey
  /\ lastWrite = <<"none", NoKey>>
  /\ createCount = [r \in RunIds |-> 0]
  /\ finalizeCount = [r \in RunIds |-> 0]
  /\ disconnects = 0
  /\ browser = "none"
  /\ connects = 0
  /\ disconnectCalls = 0
  /\ marked = FALSE
  /\ fetchStep = 0
  /\ snapshot = NoSnapshot
  /\ response = NoResponse
  /\ overlapResponse = NoResponse
  /\ inFlight = 0
  /\ used = 0
  /\ skipped = {}

\* accessToken = null; the tokens issued are numbered from 1
NoToken == 0

\* new PlaySpaceClient(credentials): no token yet, no request made
NewClient == [pc |-> "idle", accessToken |-> NoToken, issued |-> 0, n |-> 0, trace |-> <<>>]

\* no record has been handed to hashEntity, no source request made
InitHash ==
  /\ recA = <<>> /\ recB = <<>>
  /\ hashA = NoHash /\ hashB = NoHash
  /\ req = NewClient

\* an empty database (SCHEMA) and no run yet
Init ==
  /\ ledger = [k \in Keys |-> NoRecord]
  /\ table = <<>>
  /\ log = <<>>
  /\ InitRun
  /\ InitHash

(***************************************************************************)
(* The source system changes between runs.                                 *)
(***************************************************************************)
EditSource(k) ==
  /\ pc = "idle"
  /\ edits < MaxEdits
  /\ source' = [source EXCEPT ![k] = 3 - @]
  /\ edits' = edits + 1
  /\ UNCHANGED <<browser, connects, disconnectCalls, marked, table, log, hashVars, req, skipped,
                 fetchStep, snapshot, response, overlapResponse, inFlight, used,
                 lastWrite, owl, ledger, runs, runId, pc, opts, changes, phase, items, idx, results,
                 session, lost, runErr, outcome, summary, faults, startLedger, calls,
                 thrown, runFaulted, crashedKey, createCount, finalizeCount, disconnects>>

\* the records that may be entered in Owl Practice by hand
HandMade == {<<"c2", "client">>}

\* a client is entered in Owl Practice by hand, before the first run: the
\* name search of createOrUpdateClient will find it
EditDestination(k) ==
  /\ pc = "idle"
  /\ used = 0
  /\ k \in HandMade
  /\ k \notin owl
  /\ owl' = owl \cup {k}
  /\ UNCHANGED <<browser, connects, disconnectCalls, marked, table, log, hashVars, req, skipped,
                 fetchStep, snapshot, response, overlapResponse, inFlight, used,
                 lastWrite, source, edits, ledger, runs, runId, pc, opts, changes, phase,
                 items, idx, results, session, lost, runErr, outcome, summary, faults,
                 startLedger, calls, thrown, runFaulted, crashedKey, createCount,
                 finalizeCount, disconnects>>

(***************************************************************************)
(* POST /api/sync/run and the CLI: fetchPlaySpaceData, detectAllChanges,   *)
(* then runSync with useLedger.                                            *)
(***************************************************************************)
\* the request arrives and fetchPlaySpaceData is called
Post(dryRun, entities) ==
  /\ pc = "idle"
  /\ used < MaxRuns
  /\ pc' = "fetching"
  /\ opts' = [dryRun |-> dryRun, useLedger |-> TRUE, entities |-> entities]
  /\ UNCHANGED <<source, edits, ledger, runs, runId, changes, phase, items, idx,
                 results, session, lost, runErr, outcome, summary, faults, owl,
                 startLedger, calls, thrown, runFaulted, crashedKey, lastWrite,
                 createCount, finalizeCount, disconnects, browser, connects,
                 disconnectCalls, marked, table, log, hashVars, req, skipped, fetchStep, snapshot,
                 response, overlapResponse, inFlight, used>>

\* one source request of fetchPlaySpaceData returns, or fails: then the
\* handler answers with an error and runSync is never called
FetchStep(ok) ==
  /\ pc = "fetching"
  /\ ~FetchComplete(fetchStep)
  /\ IF ok
     THEN /\ fetchStep' = fetchStep + 1
          /\ UNCHANGED <<pc, faults, runErr, outcome, response>>
     ELSE /\ faults < MaxFaults
          /\ faults' = faults + 1
          /\ pc' = OnFetchError
          /\ runErr' = FetchErrMsg
          /\ outcome' = "threw"
          /\ response' = ErrorResponse(FetchErrMsg)
          /\ UNCHANGED fetchStep
  /\ UNCHANGED <<source, edits, ledger, runs, runId, opts, changes, phase, items, idx,
                 results, session, lost, summary, owl,
                 startLedger, calls, thrown, runFaulted, crashedKey, lastWrite,
                 createCount, finalizeCount, disconnects, browser, connects,
                 disconnectCalls, marked, table, log, hashVars, req, skipped, snapshot,
                 overlapResponse, inFlight, used>>

\* detectAllChanges(data): findRecord, through getDatabase, for every record
Detect ==
  /\ pc = "fetching"
  /\ FetchComplete(fetchStep)
  /\ LET before == [records |-> ledger, runs |-> runs]
         db == getDatabase(before)
     IN /\ snapshot' = before
        /\ ledger' = db.records
        /\ runs' = db.runs
        /\ changes' = detectAllChanges(db.records, fetchPlaySpaceData(source))
  /\ pc' = "detected"
  /\ UNCHANGED <<source, edits, runId, opts, phase, items, idx,
                 results, session, lost, runErr, outcome, summary, faults, owl,
                 startLedger, calls, thrown, runFaulted, crashedKey, lastWrite,
                 createCount, finalizeCount, disconnects, browser, connects,
                 disconnectCalls, marked, table, log, hashVars, req, skipped, fetchStep,
                 response, overlapResponse, inFlight, used>>

(***************************************************************************)
(* runSync, lines 114-126, called with the detected changes (path "run")   *)
(* or from runSyncFromData by POST /api/sync/trigger (path "trigger":      *)
(* inline data, every record new, no ledger).                              *)
(***************************************************************************)
StartRun(path, dryRun, entities) ==
  /\ \/ /\ path = "run"
        /\ pc = "detected"
        /\ dryRun = opts.dryRun /\ entities = opts.entities
     \/ /\ path = "trigger"
        /\ pc = "idle"
        /\ used < MaxRuns
  /\ LET data == fetchPlaySpaceData(source)
         useLedger == (path = "run")
     IN /\ changes' = IF useLedger THEN changes ELSE dataAsNewChanges(data)
        /\ opts' = [dryRun |-> dryRun, useLedger |-> useLedger, entities |-> entities]
        /\ runs' = IF useLedger THEN createRun(runs, used + 1, "automated", dryRun) ELSE runs
        /\ createCount' = IF useLedger THEN [createCount EXCEPT ![used + 1] = @ + 1]
                          ELSE createCount
  /\ runId' = used + 1
  /\ used' = used + 1
  /\ snapshot' = NoSnapshot
  /\ results' = <<>>
  /\ pc' = "started"
  /\ phase' = 0 /\ items' = <<>> /\ idx' = 0
  /\ session' = "null" /\ lost' = FALSE /\ runErr' = Null
  /\ outcome' = "none" /\ summary' = NoSummary
  /\ startLedger' = ledger
  /\ calls' = <<>> /\ thrown' = {} /\ runFaulted' = FALSE /\ disconnects' = 0
  /\ browser' = "none" /\ connects' = 0 /\ disconnectCalls' = 0 /\ marked' = FALSE
  /\ UNCHANGED <<table, log, hashVars, req, skipped, fetchStep, response, overlapResponse, inFlight,
                 lastWrite, owl, source, edits, ledger, faults, crashedKey,
                 finalizeCount>>

\* a second request arrives while a run is executing.  Neither route looks
\* for a run in progress.  A dry-run request has no await after its fetch:
\* it is followed here to its response.
ConcurrentPost(path, entities) ==
  /\ pc \in {"started", "item", "calling", "catch", "finally", "complete"}
  /\ overlapResponse = NoResponse
  /\ LET id == used + 1
         summ == buildSummary(id, <<>>)
     IN IF path = "run"
        THEN /\ used < MaxRuns
             /\ runs' = completeRun(createRun(runs, id, "automated", TRUE), id, entities,
                                    summ.counts, "completed")
             /\ createCount' = [createCount EXCEPT ![id] = @ + 1]
             /\ finalizeCount' = [finalizeCount EXCEPT ![id] = @ + 1]
             /\ used' = id
             /\ overlapResponse' = RouteResponse(TRUE, summ)
        ELSE /\ overlapResponse' = RouteResponse(FALSE, summ)
             /\ UNCHANGED <<runs, createCount, finalizeCount, used>>
  /\ UNCHANGED <<source, edits, ledger, runId, pc, opts, changes, phase, items, idx,
                 results, session, lost, runErr, outcome, summary, faults, owl,
                 startLedger, calls, thrown, runFaulted, crashedKey, lastWrite,
                 disconnects, browser, connects,
                 disconnectCalls, marked, table, log, hashVars, req, skipped, fetchStep, snapshot,
                 response, inFlight>>

\* lines 128-133
DryRunFinish ==
  /\ pc = "started"
  /\ SkipsPush(opts.dryRun)
  /\ LET s == buildSummary(runId, results)
     IN /\ summary' = s
        /\ runs' = IF opts.useLedger
                   THEN completeRun(runs, runId, opts.entities, s.counts, "completed")
                   ELSE runs
  /\ finalizeCount' = IF opts.useLedger THEN [finalizeCount EXCEPT ![runId] = @ + 1]
                      ELSE finalizeCount
  /\ pc' = "done"
  /\ outcome' = "returned"
  /\ crashedKey' = IF opts.useLedger THEN NoKey ELSE crashedKey
  /\ response' = RouteResponse(opts.useLedger, summary')
  /\ UNCHANGED <<browser, connects, disconnectCalls, marked, table, log, hashVars, req, skipped,
                 fetchStep, snapshot, overlapResponse, inFlight, used,
                 lastWrite, owl, source, edits, ledger, runId, opts, changes, phase, items, idx, results,
                 session, lost, runErr, faults, startLedger, calls, thrown, runFaulted,
                 createCount, disconnects>>

\* line 138, owl.connect(): createBrowserSession then ensureLoggedIn; on
\* success the first loop with an item is entered.  createBrowserSession
\* throws before anything is created ("fail_create") or after the remote
\* session was created, while attaching to it ("fail_attach"), and in both
\* cases this.session stays null; ensureLoggedIn throws ("fail_login") with
\* this.session assigned.
Connect(how) ==
  /\ pc = "started"
  /\ ~SkipsPush(opts.dryRun)
  /\ connects' = connects + 1
  /\ browser' = IF how = "fail_create" THEN "none" ELSE "open"
  /\ \/ /\ how = "ok"
        /\ session' = "held"
        /\ runErr' = Null
        /\ LET e == EnterPhase(1, opts, changes, ledger)
           IN /\ phase' = e.phase
              /\ items' = e.items
              /\ idx' = 1
              /\ pc' = IF e.phase > NumPhases THEN "finally" ELSE "item"
        /\ faults' = faults
     \/ /\ how \in {"fail_create", "fail_attach"}
        /\ faults < MaxFaults
        /\ faults' = faults + 1
        /\ session' = "null"
        /\ runErr' = ThrowMsg
        /\ pc' = "catch"
        /\ UNCHANGED <<phase, items, idx>>
     \/ /\ how = "fail_login"
        /\ faults < MaxFaults
        /\ faults' = faults + 1
        /\ session' = "held"
        /\ runErr' = ThrowMsg
        /\ pc' = "catch"
        /\ UNCHANGED <<phase, items, idx>>
  /\ crashedKey' = IF opts.useLedger THEN NoKey ELSE crashedKey
  /\ UNCHANGED <<disconnectCalls, marked, table, log, hashVars, req, skipped,
                 fetchStep, snapshot, response, overlapResponse, inFlight, used,
                 lastWrite, owl, source, edits, ledger, runs, runId, opts, changes, results, lost,
                 outcome, summary, startLedger, calls, thrown, runFaulted,
                 createCount, finalizeCount, disconnects>>

\* the remote session dies; every later adapter call throws in ensureLoggedIn
LoseSession ==
  /\ pc = "item"
  /\ ~lost
  /\ faults < MaxFaults
  /\ faults' = faults + 1
  /\ lost' = TRUE
  /\ UNCHANGED <<browser, connects, disconnectCalls, marked, table, log, hashVars, req, skipped,
                 fetchStep, snapshot, response, overlapResponse, inFlight, used,
                 lastWrite, owl, source, edits, ledger, runs, runId, pc, opts, changes, phase, items,
                 idx, results, session, runErr, outcome, summary, startLedger,
                 calls, thrown, runFaulted, crashedKey, createCount, finalizeCount,
                 disconnects>>

(***************************************************************************)
(* The item loops, lines 160-173, 178-191 and 196-215.                     *)
(***************************************************************************)
\* the loop goes on after an item with result r; led is the ledger then
GoNext(r, led) ==
  IF AfterItem(r) = "continue"
  THEN /\ runErr' = runErr
       /\ IF idx < Len(items)
          THEN /\ idx' = idx + 1
               /\ pc' = "item"
               /\ UNCHANGED <<phase, items>>
          ELSE LET e == EnterPhase(NextPhase(phase), opts, changes, led)
               IN /\ phase' = e.phase
                  /\ items' = e.items
                  /\ idx' = 1
                  /\ pc' = IF e.phase > NumPhases THEN "finally" ELSE "item"
  ELSE /\ runErr' = Coalesce(r.error, "Unknown error")
       /\ pc' = "catch"
       /\ UNCHANGED <<phase, items, idx>>

\* the catch block of an item: push a failed result, then markFailed, which
\* may itself throw and so end the loops: a new fault, or the fault of the
\* ledger write that threw in the try block, still there.  res and led are
\* the results and the ledger when the exception was thrown, f the faults so
\* far.
CatchItem(key, hash, message, res, led, f, faulted) ==
  LET r == CaughtResult(key[2], key[1], message)
  IN /\ results' = Append(res, r)
     /\ skipped' = {s \in skipped : s.key # key}
     /\ \/ /\ ledger' = IF opts.useLedger
                        THEN markFailed(led, key[1], key[2], hash, message)
                        ELSE led
           /\ lastWrite' = IF opts.useLedger THEN <<"failed", key>> ELSE lastWrite
           /\ faults' = f
           /\ runFaulted' = faulted
           /\ GoNext(r, ledger')
        \/ /\ opts.useLedger
           /\ message = LedgerErrMsg \/ f < MaxFaults
           /\ ledger' = led
           /\ lastWrite' = lastWrite
           /\ faults' = IF message = LedgerErrMsg THEN f ELSE f + 1
           /\ runFaulted' = TRUE
           /\ runErr' = LedgerErrMsg
           /\ pc' = "catch"
           /\ UNCHANGED <<phase, items, idx>>

\* hashEntity, markPending, and the adapter operation is started
ItemBegin ==
  /\ pc = "item"
  /\ LET key == ItemKey
         hash == hashEntity(items[idx])
     IN \/ /\ ledger' = PendingWrite(ledger, key, hash, opts.useLedger)
           /\ lastWrite' = IF opts.useLedger THEN <<"pending", key>> ELSE lastWrite
           /\ pc' = AwaitAdapter
           /\ skipped' = {s \in skipped : s.key # key}
           /\ calls' = Append(calls, key)
           /\ inFlight' = inFlight + 1
           /\ UNCHANGED <<phase, items, idx, results, runErr, faults, runFaulted>>
        \/ /\ opts.useLedger
           /\ faults < MaxFaults
           /\ calls' = calls
           /\ inFlight' = inFlight
           /\ CatchItem(key, hash, LedgerErrMsg, results, ledger, faults + 1, TRUE)
  /\ marked' = (marked \/ opts.useLedger)
  /\ UNCHANGED <<browser, connects, disconnectCalls, table, log, hashVars, req,
                 fetchStep, snapshot, response, overlapResponse, used,
                 owl, source, edits, runs, runId, opts, changes, session, lost, outcome,
                 summary, startLedger, thrown, crashedKey, createCount, finalizeCount,
                 disconnects>>

\* the adapter operation ends: its result is pushed and recorded, or its
\* exception is caught
ItemReturn(w) ==
  /\ pc = "calling"
  /\ inFlight' = inFlight - 1
  /\ w \in Responses(EntityTypes[phase])
  /\ lost => w = "throw"
  /\ LET key == ItemKey
         hash == hashEntity(items[idx])
         r == AdapterCall(phase, ledger, owl, items[idx], w)
         f == IF ~lost /\ w # "ok" THEN faults + 1 ELSE faults
     IN /\ f <= MaxFaults
        /\ owl' = IF r # Thrown /\ r.action = "created" THEN owl \cup {key} ELSE owl
        /\ IF r = Thrown
           THEN /\ thrown' = thrown \cup {key}
                /\ CatchItem(key, hash, ThrowMsg, results, ledger, f, runFaulted)
           ELSE /\ thrown' = thrown
                /\ \/ /\ results' = Append(results, r)
                      /\ ledger' = IF opts.useLedger
                                   THEN recordResult(ledger, r, items[idx])
                                   ELSE ledger
                      /\ lastWrite' = IF opts.useLedger
                                      THEN <<ledger'[key].syncStatus, key>>
                                      ELSE lastWrite
                      /\ faults' = f
                      /\ skipped' = IF opts.useLedger /\ r.action = "skipped"
                                    THEN {s \in skipped : s.key # key} \cup
                                         {[key |-> key, run |-> runId, hash |-> hash,
                                           reference |-> r.owlReference]}
                                    ELSE {s \in skipped : s.key # key}
                      /\ UNCHANGED runFaulted
                      /\ GoNext(r, ledger')
                   \/ /\ opts.useLedger
                      /\ f < MaxFaults
                      /\ CatchItem(key, hash, LedgerErrMsg, Append(results, r), ledger,
                                   f + 1, TRUE)
  /\ UNCHANGED <<browser, connects, disconnectCalls, marked, table, log, hashVars, req,
                 fetchStep, snapshot, response, overlapResponse, used,
                 source, edits, runs, runId, opts, changes, session, lost, outcome,
                 summary, startLedger, calls, crashedKey, createCount, finalizeCount,
                 disconnects>>

(***************************************************************************)
(* The end of runSync, lines 218-233.                                      *)
(***************************************************************************)
\* catch (error): the run is recorded as failed, the error re-thrown
OuterCatch ==
  /\ pc = "catch"
  /\ LET s == buildSummary(runId, results)
     IN runs' = IF opts.useLedger
                THEN completeRun(runs, runId, opts.entities, s.counts, CaughtRunStatus)
                ELSE runs
  /\ finalizeCount' = IF opts.useLedger THEN [finalizeCount EXCEPT ![runId] = @ + 1]
                      ELSE finalizeCount
  /\ pc' = "finally"
  /\ UNCHANGED <<browser, connects, disconnectCalls, marked, table, log, hashVars, req, skipped,
                 fetchStep, snapshot, response, overlapResponse, inFlight, used,
                 lastWrite, owl, source, edits, ledger, runId, opts, changes, phase, items, idx, results,
                 session, lost, runErr, outcome, summary, faults, startLedger, calls,
                 thrown, runFaulted, crashedKey, createCount, disconnects>>

\* finally: owl.disconnect(), which closes the session if one is held
Finally ==
  /\ pc = "finally"
  /\ session' = "null"
  /\ disconnects' = IF session = "held" THEN disconnects + 1 ELSE disconnects
  /\ disconnectCalls' = disconnectCalls + 1
  /\ browser' = IF session = "held" THEN "none" ELSE browser
  /\ IF runErr # Null
     THEN pc' = "done" /\ outcome' = "threw" /\ response' = ErrorResponse(runErr)
     ELSE pc' = "complete" /\ outcome' = outcome /\ response' = response
  /\ UNCHANGED <<connects, marked, table, log, hashVars, req, skipped,
                 fetchStep, snapshot, overlapResponse, inFlight, used, lastWrite, owl, source, edits, ledger, runs, runId, opts, changes, phase, items, idx,
                 results, lost, runErr, summary, faults, startLedger, calls, thrown,
                 runFaulted, crashedKey, createCount, finalizeCount>>

\* lines 230-233
Complete ==
  /\ pc = "complete"
  /\ LET s == buildSummary(runId, results)
     IN /\ summary' = s
        /\ runs' = IF opts.useLedger
                   THEN completeRun(runs, runId, opts.entities, s.counts, "completed")
                   ELSE runs
  /\ finalizeCount' = IF opts.useLedger THEN [finalizeCount EXCEPT ![runId] = @ + 1]
                      ELSE finalizeCount
  /\ pc' = "done"
  /\ outcome' = "returned"
  /\ response' = RouteResponse(opts.useLedger, summary')
  /\ UNCHANGED <<browser, connects, disconnectCalls, marked, table, log, hashVars, req, skipped,
                 fetchStep, snapshot, overlapResponse, inFlight, used, lastWrite, owl, source, edits, ledger, runId, opts, changes, phase, items, idx, results,
                 session, lost, runErr, faults, startLedger, calls, thrown, runFaulted,
                 crashedKey, createCount, disconnects>>

\* what is in memory when no run is executing
Forget ==
  /\ opts' = [dryRun |-> FALSE, useLedger |-> FALSE, entities |-> {}]
  /\ changes' = NoChanges
  /\ phase' = 0 /\ items' = <<>> /\ idx' = 0
  /\ results' = <<>>
  /\ session' = "null" /\ lost' = FALSE /\ runErr' = Null
  /\ outcome' = "none" /\ summary' = NoSummary
  /\ startLedger' = ledger
  /\ calls' = <<>> /\ thrown' = {} /\ runFaulted' = FALSE /\ disconnects' = 0
  /\ browser' = "none" /\ connects' = 0 /\ disconnectCalls' = 0 /\ marked' = FALSE
  /\ fetchStep' = 0 /\ snapshot' = NoSnapshot /\ inFlight' = 0
  /\ response' = NoResponse /\ overlapResponse' = NoResponse

\* the caller has consumed the summary or the error of the run that ended
Return ==
  /\ pc \in {"done", "fetch_failed"}
  /\ pc' = "idle"
  /\ Forget
  /\ UNCHANGED <<table, log, hashVars, req, skipped, used, lastWrite, owl, source, edits, ledger, runs, runId, faults, crashedKey,
                 createCount, finalizeCount>>

(***************************************************************************)
(* The host process is terminated in the middle of a run: what is in       *)
(* memory is gone, the ledger file stays as it is.  An adapter operation   *)
(* in flight that was about to create its record in Owl Practice may or    *)
(* may not have done so.                                                   *)
(***************************************************************************)
Crash(delivered) ==
  /\ pc \notin {"idle", "done", "fetch_failed"}
  /\ faults < MaxFaults
  /\ faults' = faults + 1
  /\ delivered =>
       /\ pc = "calling" /\ ~lost
       /\ AdapterCall(phase, ledger, owl, items[idx], "ok").action = "created"
  /\ owl' = IF delivered THEN owl \cup {ItemKey} ELSE owl
  /\ crashedKey' = IF pc = "calling" /\ opts.useLedger THEN ItemKey ELSE NoKey
  /\ pc' = "idle"
  /\ Forget
  /\ UNCHANGED <<table, log, hashVars, req, skipped, used, lastWrite, source, edits, ledger, runs, runId, createCount, finalizeCount>>

Next ==
  \/ \E k \in Keys : EditSource(k)
  \/ \E q \in Requests : q.path = "run" /\ Post(q.dryRun, q.entities)
  \/ \E k \in Keys : EditDestination(k)
  \/ \E ok \in BOOLEAN : FetchStep(ok)
  \/ Detect
  \/ \E q \in Requests : StartRun(q.path, q.dryRun, q.entities)
  \/ \E q \in Requests : q.dryRun /\ ConcurrentPost(q.path, q.entities)
  \/ DryRunFinish
  \/ \E how \in {"ok", "fail_create", "fail_attach", "fail_login"} : Connect(how)
  \/ LoseSession
  \/ ItemBegin
  \/ \E w \in {"ok", "ok_noid", "ui_error", "throw"} : ItemReturn(w)
  \/ OuterCatch
  \/ Finally
  \/ Complete
  \/ Return
  \/ \E delivered \in BOOLEAN : Crash(delivered)

Spec == Init /\ [][Next]_vars

(***************************************************************************)
(* The ledger store alone: any sequence of markPending, markSynced and     *)
(* markFailed calls on an empty database.  Each call is applied to the     *)
(* table of rows and to the ledger as the orchestrator above sees it.      *)
(***************************************************************************)
\* the source ids, entity types, hashes, references and error messages the
\* calls are made with; a source id is used under two entity types
StoreSourceIds == {"c1", "n1"}
StoreTypes == {"client", "sessionNote"}
StoreKeys == StoreSourceIds \X StoreTypes
StoreHashes == {"h1", "h2"}
StoreReferences == {Undefined, "owl-1"}
StoreErrors == {"e1"}

runVars == <<source, edits, runs, runId, pc, opts, changes, phase, items, idx,
             results, session, lost, runErr, outcome, summary, faults, owl,
             startLedger, calls, thrown, runFaulted, crashedKey, lastWrite,
             createCount, finalizeCount, disconnects, browser, connects,
             disconnectCalls, marked, fetchStep, snapshot, response,
             overlapResponse, inFlight, used, skipped>>

InitStore ==
  /\ ledger = [k \in StoreKeys |-> NoRecord]
  /\ table = <<>>
  /\ log = <<>>
  /\ InitRun
  /\ InitHash

\* markPending(sourceId, entityType, hash) passes "pending" and neither a
\* reference nor an error message
StoreMarkPending(k, h) ==
  /\ Len(log) < MaxWrites
  /\ ledger' = markPending(ledger, k[1], k[2], h)
  /\ table' = insertOrUpdate(table, k[1], k[2], h, "pending", Undefined, Undefined, Len(log) + 1)
  /\ log' = Append(log, [op |-> "markPending", key |-> k, hash |-> h,
                         ref |-> Undefined, err |-> Undefined])
  /\ UNCHANGED <<runVars, hashVars, req>>

\* markSynced(sourceId, entityType, hash, owlReference?) passes "synced",
\* the reference and no error message
StoreMarkSynced(k, h, ref) ==
  /\ Len(log) < MaxWrites
  /\ ledger' = markSynced(ledger, k[1], k[2], h, ref)
  /\ table' = insertOrUpdate(table, k[1], k[2], h, "synced", ref, Undefined, Len(log) + 1)
  /\ log' = Append(log, [op |-> "markSynced", key |-> k, hash |-> h,
                         ref |-> ref, err |-> Undefined])
  /\ UNCHANGED <<runVars, hashVars, req>>

\* markFailed(sourceId, entityType, hash, error) passes "failed", null as
\* the reference and the error message
StoreMarkFailed(k, h, error) ==
  /\ Len(log) < MaxWrites
  /\ ledger' = markFailed(ledger, k[1], k[2], h, error)
  /\ table' = insertOrUpdate(table, k[1], k[2], h, "failed", Null, error, Len(log) + 1)
  /\ log' = Append(log, [op |-> "markFailed", key |-> k, hash |-> h,
                         ref |-> Null, err |-> error])
  /\ UNCHANGED <<runVars, hashVars, req>>

NextStore ==
  \/ \E k \in StoreKeys, h \in StoreHashes : StoreMarkPending(k, h)
  \/ \E k \in StoreKeys, h \in StoreHashes, ref \in StoreReferences : StoreMarkSynced(k, h, ref)
  \/ \E k \in StoreKeys, h \in StoreHashes, error \in StoreErrors : StoreMarkFailed(k, h, error)

LedgerSpec == InitStore /\ [][NextStore]_vars

(***************************************************************************)
(* hashEntity alone: two objects are handed to it and fingerprinted.       *)
(***************************************************************************)
\* marks a property the object does not have
Absent == "<absent>"

HashIdentities == { <<"x1", "playspace", "s1">>, <<"x2", "manual", "s2">>,
                    <<"x1", "playspace", "s2">> }
HashEmails == {Absent, Undefined, Null, "a@mail", "b@mail"}
HashNames == {"Ann", "Bob"}

\* an object with the given properties, written in one of two orders
BuildRecord(ident, email, name, reversed) ==
  LET mail == IF email = Absent THEN <<>> ELSE << <<"email", email>> >>
  IN IF reversed
     THEN << <<"sourceId", ident[3]>>, <<"firstName", name>> >> \o mail \o
          << <<"source", ident[2]>>, <<"id", ident[1]>> >>
     ELSE << <<"id", ident[1]>> >> \o mail \o
          << <<"firstName", name>>, <<"source", ident[2]>>, <<"sourceId", ident[3]>> >>

\* the objects handed to hashEntity: built ones and the mappers' records
HashRecords ==
  {BuildRecord(i, e, n, r) : i \in HashIdentities, e \in HashEmails,
                             n \in HashNames, r \in BOOLEAN}
    \cup {MapEntity(k, v) : k \in Keys, v \in Versions}

InitFingerprint ==
  /\ recA \in HashRecords /\ recB \in HashRecords
  /\ hashA = NoHash /\ hashB = NoHash
  /\ req = NewClient
  /\ ledger = [k \in Keys |-> NoRecord]
  /\ table = <<>>
  /\ log = <<>>
  /\ InitRun

Fingerprint ==
  /\ hashA = NoHash
  /\ hashA' = hashEntity(recA)
  /\ hashB' = hashEntity(recB)
  /\ UNCHANGED <<recA, recB, req, ledger, table, log, runVars>>

NextHash == Fingerprint

HashSpec == InitFingerprint /\ [][NextHash]_vars

(***************************************************************************)
(* PlaySpaceClient.request alone: one client serves requests one after the *)
(* other; the token endpoint and the API answer as they please.            *)
(***************************************************************************)
MaxRequests == 3

\* the HTTP statuses the API answers with
Statuses == {200, 401, 403, 404, 500}

\* response.ok
Ok(status) == status \in 200..299

\* a request that takes a second 401 as one more expired token
AfterRetry_retriesAgain(status) ==
  IF Ok(status) THEN "returned" ELSE IF status = 401 THEN "expired" ELSE "raised"

\* if (!retryResponse.ok) throw ...; return retryResponse.json()
AfterRetry(status) == IF Ok(status) THEN "returned" ELSE "raised"

\* authenticate(): nothing to do with a cached token; otherwise the token
\* endpoint is asked, and its answer is the token or an error
authenticate(c, granted, then) ==
  IF c.accessToken # NoToken
  THEN [c EXCEPT !.pc = then]
  ELSE IF granted
  THEN [c EXCEPT !.pc = then, !.accessToken = c.issued + 1, !.issued = @ + 1,
                 !.trace = Append(@, <<"auth", TRUE>>)]
  ELSE [c EXCEPT !.pc = "raised", !.trace = Append(@, <<"auth", FALSE>>)]

\* request(path, params) is called
RequestBegin ==
  /\ req.pc \in {"idle", "returned", "raised"}
  /\ req.n < MaxRequests
  /\ req' = [req EXCEPT !.pc = "authenticate", !.n = @ + 1, !.trace = <<>>]
  /\ UNCHANGED <<hashVars, ledger, table, log, runVars>>

\* line 59: await this.authenticate()
RequestAuthenticate(granted) ==
  /\ req.pc = "authenticate"
  /\ req' = authenticate(req, granted, "fetch")
  /\ UNCHANGED <<hashVars, ledger, table, log, runVars>>

\* lines 69-96: the request is sent with the token; 401 discards the token
RequestFetch(status) ==
  /\ req.pc = "fetch"
  /\ LET sent == [req EXCEPT !.trace = Append(@, <<"get", req.accessToken, status>>)]
     IN req' = IF status = 401
               THEN [sent EXCEPT !.pc = "expired", !.accessToken = NoToken]
               ELSE IF Ok(status) THEN [sent EXCEPT !.pc = "returned"]
               ELSE [sent EXCEPT !.pc = "raised"]
  /\ UNCHANGED <<hashVars, ledger, table, log, runVars>>

\* line 79: await this.authenticate(), the token having been discarded
RequestReauthenticate(granted) ==
  /\ req.pc = "expired"
  /\ req' = authenticate(req, granted, "retry")
  /\ UNCHANGED <<hashVars, ledger, table, log, runVars>>

\* lines 80-89: the request is sent again, once
RequestRetry(status) ==
  /\ req.pc = "retry"
  /\ req' = [req EXCEPT !.pc = AfterRetry(status),
                        !.accessToken = IF AfterRetry(status) = "expired" THEN NoToken ELSE @,
                        !.trace = Append(@, <<"get", req.accessToken, status>>)]
  /\ UNCHANGED <<hashVars, ledger, table, log, runVars>>

NextRequest ==
  \/ RequestBegin
  \/ \E granted \in BOOLEAN : RequestAuthenticate(granted)
  \/ \E status \in Statuses : RequestFetch(status)
  \/ \E granted \in BOOLEAN : RequestReauthenticate(granted)
  \/ \E status \in Statuses : RequestRetry(status)

RequestSpec == InitStore /\ [][NextRequest]_vars

(***************************************************************************)
(* Properties.                                                             *)
(***************************************************************************)
Range(seq) == {seq[i] : i \in 1..Len(seq)}

\* the record of key k as the source system has it now
CurrentEntity(k) == MapEntity(k, source[k])

ChangeSetOf(chg, entityType) ==
  IF entityType = "client" THEN chg.clients
  ELSE IF entityType = "appointment" THEN chg.appointments
  ELSE chg.sessionNotes

\* a ledger-backed run is executing and has detected its changes
LedgerRun == pc \notin {"idle", "fetching", "detected", "fetch_failed"} /\ opts.useLedger

\* the row of k says that the record, as it is now, was delivered
SyncedUnmodified(led, k) ==
  /\ led[k] # NoRecord
  /\ led[k].syncStatus = "synced"
  /\ led[k].dataHash = hashEntity(CurrentEntity(k))

\* C1: detectChanges puts a record in `unchanged` only if its ledger entry
\* exists, has the record's fingerprint as dataHash and has status synced.
C1_UnchangedOnlyIfSynced ==
  LedgerRun =>
    \A k \in Keys :
      CurrentEntity(k) \in Range(ChangeSetOf(changes, k[2]).unchanged)
        => SyncedUnmodified(startLedger, k)

\* C2: a record whose ledger entry is `failed` when a ledger-backed run over
\* the same data and entity types starts is handed to the adapter again.
C2_FailedIsRetried ==
  (pc = "done" /\ opts.useLedger /\ ~opts.dryRun /\ outcome = "returned" /\ ~runFaulted) =>
    \A k \in Keys :
      (/\ k[2] \in opts.entities
       /\ startLedger[k] # NoRecord
       /\ startLedger[k].syncStatus = "failed"
       /\ startLedger[k].dataHash = hashEntity(CurrentEntity(k)))
        => k \in Range(calls)

\* no result of the run says that k was created or updated, and the ledger
\* entry of k is as it was when the run started
Untouched(k) ==
  /\ \A i \in 1..Len(results) :
       (results[i].sourceId = k[1] /\ results[i].entity = k[2])
         => results[i].action \notin {"created", "updated"}
  /\ ledger[k] = startLedger[k]

\* C3 as stated: a ledger-backed run over an unmodified record whose entry
\* is synced yields no created or updated result for it and leaves its
\* ledger entry as it was.
C3_IdempotentForEverySynced ==
  LedgerRun => \A k \in Keys : SyncedUnmodified(startLedger, k) => Untouched(k)

\* C3 amended: the same, for every such record except a client whose ledger
\* entry has no destination reference (which is delivered again to backfill
\* the reference).
C3_Idempotent ==
  LedgerRun =>
    \A k \in Keys :
      (/\ SyncedUnmodified(startLedger, k)
       /\ (k[2] = "client" => ~Falsy(startLedger[k].owlReference)))
        => Untouched(k)

C3_Witness ==
  /\ pc = "done" /\ opts.useLedger /\ ~opts.dryRun /\ outcome = "returned"
  /\ Len(calls) > 0
  /\ \E k \in Keys :
       /\ k[2] \in opts.entities
       /\ SyncedUnmodified(startLedger, k)
       /\ (k[2] = "client" => ~Falsy(startLedger[k].owlReference))

\* C4: the entry of an item that was in flight when the process was killed
\* stays pending, and the next ledger-backed run classifies that record as
\* changed, whether or not the stored hash equals its fingerprint.
C4_PendingAfterCrashIsChanged ==
  crashedKey # NoKey =>
    /\ ledger[crashedKey] # NoRecord
    /\ ledger[crashedKey].syncStatus = "pending"
    /\ (pc = "started" /\ opts.useLedger) =>
         CurrentEntity(crashedKey) \in Range(ChangeSetOf(changes, crashedKey[2]).changed)

C4_Witness ==
  /\ pc = "started" /\ opts.useLedger
  /\ crashedKey # NoKey
  /\ ledger[crashedKey].dataHash = hashEntity(CurrentEntity(crashedKey))

\* C5: while the adapter operation of an item is in flight in a
\* ledger-backed run, the item's entry is pending with the item's
\* fingerprint, and that pending write is the last ledger write and the
\* item the last one handed to the adapter.
C5_PendingBeforeCall ==
  (pc = "calling" /\ opts.useLedger) =>
    /\ ledger[ItemKey] # NoRecord
    /\ ledger[ItemKey].syncStatus = "pending"
    /\ ledger[ItemKey].dataHash = hashEntity(items[idx])
    /\ lastWrite = <<"pending", ItemKey>>
    /\ calls[Len(calls)] = ItemKey

C5_Witness ==
  /\ pc = "calling" /\ opts.useLedger
  /\ Len(calls) >= 2
  /\ ledger[calls[1]].syncStatus \in {"synced", "failed"}

\* the keys of the items the loops of the current run go through, in order
RECURSIVE ExpectedCalls(_)
ExpectedCalls(p) ==
  IF p > NumPhases THEN <<>>
  ELSE LET its == IF EntityTypes[p] \in opts.entities
                  THEN PhaseItems(p, changes, startLedger, opts.useLedger)
                  ELSE <<>>
       IN [i \in 1..Len(its) |-> <<Get(its[i], "sourceId"), EntityTypes[p]>>]
          \o ExpectedCalls(p + 1)

\* C6: a run that connected and in which no ledger write threw hands every
\* item of every selected entity type to the adapter, whatever failed or
\* threw before it, and ends completed.
C6_ItemFailureDoesNotAbort ==
  (pc = "done" /\ ~opts.dryRun /\ phase >= 1 /\ ~runFaulted) =>
    /\ outcome = "returned"
    /\ calls = ExpectedCalls(1)
    /\ opts.useLedger => runs[runId].status = "completed"

C6_Witness ==
  /\ pc = "done" /\ ~opts.dryRun /\ phase >= 1 /\ ~runFaulted /\ opts.useLedger
  /\ \E i \in 1..(Len(calls) - 1) :
       /\ calls[i] \in thrown
       /\ calls[i + 1][2] = calls[i][2]
       /\ calls[i + 1] \notin thrown

\* C7: for an item whose adapter call threw, the results hold a failed
\* result with the error message, and in a ledger-backed run in which no
\* ledger write threw the item's entry is failed with the same message.
C7_ThrownIsRecordedFailed ==
  \A k \in thrown :
    /\ CaughtResult(k[2], k[1], ThrowMsg) \in Range(results)
    /\ (opts.useLedger /\ ~runFaulted) =>
         /\ ledger[k].syncStatus = "failed"
         /\ ledger[k].errorMessage = ThrowMsg
         /\ ledger[k].dataHash = hashEntity(CurrentEntity(k))

C7_Witness ==
  /\ pc = "done" /\ opts.useLedger /\ ~runFaulted
  /\ thrown # {}

\* C8: a run in which the session was lost and adapter calls threw ends with
\* a run-level failure, and the entries of those items stay pending.
C8_SessionLossAborts ==
  (pc = "done" /\ lost /\ thrown # {}) =>
    /\ outcome = "threw"
    /\ opts.useLedger => \A k \in thrown : ledger[k].syncStatus = "pending"

\* C9: a run in which a ledger write threw while an item was processed ends
\* with a run-level failure.
C9_LedgerFailureIsFatal ==
  (pc = "done" /\ runFaulted) => outcome = "threw"

\* C10: a ledger-backed run has exactly one Run Record, which is running with
\* empty counts and no completedAt until the run returns or throws; then it
\* has been finalized exactly once, with a terminal status, the final counts
\* and a completedAt; no record is finalized twice.
C10_RunRecordLifecycle ==
  /\ \A r \in RunIds :
       /\ createCount[r] <= 1
       /\ finalizeCount[r] <= 1
       /\ (runs[r] # NoRun) <=> (createCount[r] = 1)
       /\ finalizeCount[r] = 1 => runs[r] # NoRun
       /\ (runs[r] # NoRun /\ finalizeCount[r] = 0) =>
            /\ runs[r].status = "running"
            /\ runs[r].counts = EmptyCounts
            /\ runs[r].completedAt = Null
       /\ (runs[r] # NoRun /\ finalizeCount[r] = 1) =>
            /\ runs[r].status \in {"completed", "failed"}
            /\ runs[r].counts # EmptyCounts
            /\ runs[r].completedAt # Null
  /\ LedgerRun => createCount[runId] = 1
  /\ (LedgerRun /\ pc \notin {"done", "finally", "complete"}) => finalizeCount[runId] = 0
  /\ (LedgerRun /\ pc = "done") =>
       /\ finalizeCount[runId] = 1
       /\ runs[runId].counts = buildSummary(runId, results).counts
       /\ runs[runId].status = IF outcome = "threw" THEN "failed" ELSE "completed"

C10_Witness ==
  /\ pc = "done" /\ opts.useLedger
  /\ outcome = "threw"
  /\ runs[runId].status = "failed"
  /\ runId > 1
  /\ runs[1] # NoRun /\ runs[1].status = "completed"
  /\ overlapResponse = NoResponse

\* C11: the Run Record of a ledger-backed run that pushed ends completed
\* exactly when the loops reached their end, and failed exactly when a
\* run-level exception occurred; then the error is re-thrown and the counts
\* recorded are those of the results pushed so far.
C11_TerminalStatus ==
  (pc = "done" /\ opts.useLedger /\ ~opts.dryRun) =>
    /\ runs[runId].status \in {"completed", "failed"}
    /\ (runs[runId].status = "completed") <=> (phase > NumPhases /\ runErr = Null)
    /\ (runs[runId].status = "failed") <=> (runErr # Null)
    /\ (runErr # Null) <=> (outcome = "threw")
    /\ (runErr = Null) <=> (outcome = "returned")
    /\ runs[runId].counts = buildSummary(runId, results).counts
    /\ outcome = "returned" => summary = buildSummary(runId, results)
    /\ outcome = "threw" => summary = NoSummary

C11_Witness ==
  /\ pc = "done" /\ opts.useLedger /\ ~opts.dryRun
  /\ runs[runId].status = "failed"
  /\ outcome = "threw"
  /\ runs[runId].counts.created >= 1
  /\ runs[runId].counts.failed >= 1

\* C12: when a run that pushed has ended, owl.connect and owl.disconnect
\* were each called once, the adapter holds no session and no browser
\* resource of the run is left open.
C12_SessionReleasedOnce ==
  (pc = "done" /\ ~opts.dryRun) =>
    /\ connects = 1
    /\ disconnectCalls = 1
    /\ session = "null"
    /\ browser = "none"

\* C13: a run whose owl.connect threw is finalized as failed, the error is
\* propagated, nothing the connect had opened is left open, and no item was
\* marked pending or delivered.
C13_FailedConnectReleases ==
  (pc = "done" /\ connects = 1 /\ phase = 0 /\ runErr # Null) =>
    /\ outcome = "threw"
    /\ opts.useLedger => runs[runId].status = "failed"
    /\ session = "null"
    /\ browser = "none"
    /\ calls = <<>>
    /\ ~marked
    /\ ledger = startLedger

\* C14: a dry run never connects, disconnects, calls the adapter or writes
\* a ledger entry; it returns a summary without results and with four zero
\* counts, and in ledger-backed mode its Run Record is completed with those
\* counts, in the other mode there is no Run Record.
C14_DryRunIsPure ==
  (pc \in {"started", "done"} /\ opts.dryRun) =>
    /\ connects = 0 /\ disconnectCalls = 0 /\ disconnects = 0
    /\ session = "null" /\ browser = "none"
    /\ calls = <<>> /\ ~marked /\ results = <<>>
    /\ ledger = startLedger
    /\ pc = "done" =>
         /\ outcome = "returned"
         /\ summary.results = <<>>
         /\ summary.counts = [created |-> 0, updated |-> 0, skipped |-> 0, failed |-> 0]
         /\ IF opts.useLedger
            THEN /\ runs[runId].status = "completed"
                 /\ runs[runId].counts = summary.counts
                 /\ runs[runId].dryRun
                 /\ finalizeCount[runId] = 1
            ELSE runs[runId] = NoRun

C14_Witness ==
  /\ pc = "done" /\ opts.dryRun /\ opts.useLedger
  /\ changes.clients.new # <<>>
  /\ changes.appointments.changed # <<>>
  /\ \E k \in Keys : ledger[k] # NoRecord /\ ledger[k].syncStatus = "pending"

\* the place of an entity type in the dependency order
TypeRank(t) == IF t = "client" THEN 1 ELSE IF t = "appointment" THEN 2 ELSE 3

\* C15: in the adapter calls of one run, every call for a client comes
\* before every call for an appointment, and every call for an appointment
\* before every call for a session note.
C15_DependencyOrder ==
  \A i, j \in 1..Len(calls) : i < j => TypeRank(calls[i][2]) <= TypeRank(calls[j][2])

C15_Witness ==
  /\ pc = "done" /\ Len(calls) >= 4
  /\ {calls[i][2] : i \in 1..Len(calls)} = AllTypes

\* the key of the client a session note refers to
NoteClient(note) == <<Get(note, "clientId"), "client">>

\* C16: when the adapter is called for a session note in a ledger-backed run
\* whose change set lists the note's client as new or changed and whose
\* entity types include clients, the client's ledger entry has a reference.
C16_ClientReferenceBeforeNote ==
  (/\ pc = "calling" /\ phase = NumPhases /\ opts.useLedger
   /\ "client" \in opts.entities
   /\ \E c \in Range(changes.clients.new \o changes.clients.changed) :
        Get(c, "sourceId") = Get(items[idx], "clientId"))
    => /\ ledger[NoteClient(items[idx])] # NoRecord
       /\ ~Falsy(ledger[NoteClient(items[idx])].owlReference)

\* the writes to k that carried a reference
SuppliedAt(k) ==
  {i \in 1..Len(log) : log[i].key = k /\ log[i].ref \notin {Undefined, Null}}

\* C17: after any sequence of markPending, markSynced and markFailed calls,
\* an entry that was ever written with a reference holds the last reference
\* it was written with, in the table and in the ledger as findRecord shows it.
C17_ReferencesAreSticky ==
  \A k \in StoreKeys :
    SuppliedAt(k) # {} =>
      LET last == log[CHOOSE i \in SuppliedAt(k) : \A j \in SuppliedAt(k) : j <= i].ref
      IN /\ ledger[k].owlReference = last
         /\ toSyncRecord(table, k[1], k[2]).owlReference = last

C17_Witness ==
  /\ Len(log) = 3
  /\ log[1].op = "markSynced" /\ log[1].ref # Undefined
  /\ log[2].op = "markFailed" /\ log[2].key = log[1].key
  /\ log[3].op = "markSynced" /\ log[3].key = log[1].key /\ log[3].ref = Undefined
  /\ ledger[log[1].key].syncStatus = "synced"
  /\ ledger[log[1].key].owlReference = log[1].ref

\* C18: after any sequence of markPending, markSynced and markFailed calls,
\* an entry has an error message only if its status is failed.
C18_ErrorOnlyWhenFailed ==
  /\ \A k \in StoreKeys :
       (ledger[k] # NoRecord /\ ledger[k].errorMessage # Null)
         => ledger[k].syncStatus = "failed"
  /\ \A i \in 1..Len(table) :
       table[i].error_message # Null => table[i].sync_status = "failed"

C18_Witness ==
  /\ Len(log) = 3
  /\ log[1].op = "markFailed"
  /\ log[2].op = "markPending" /\ log[2].key = log[1].key
  /\ log[3].op = "markFailed" /\ log[3].key # log[1].key
  /\ ledger[log[1].key].errorMessage = Null
  /\ ledger[log[3].key].errorMessage = log[3].err

\* the times at which k was written
WrittenAt(k) == {i \in 1..Len(log) : log[i].key = k}

\* C19: after any sequence of ledger writes the table has exactly one row
\* for each (sourceId, entityType) written and none for the others; the row
\* keeps the createdAt of the first write and has the updatedAt of the last;
\* and findRecord on the table gives, for every pair, the entry the ledger of
\* the orchestrator has.
C19_OneRowPerPair ==
  /\ \A i, j \in 1..Len(table) :
       (table[i].source_id = table[j].source_id
        /\ table[i].entity_type = table[j].entity_type) => i = j
  /\ \A k \in StoreKeys :
       /\ Len(matchingRows(table, k[1], k[2])) = IF WrittenAt(k) = {} THEN 0 ELSE 1
       /\ toSyncRecord(table, k[1], k[2]) = ledger[k]
       /\ WrittenAt(k) # {} =>
            LET row == matchingRows(table, k[1], k[2])[1]
            IN /\ \A i \in WrittenAt(k) : row.created_at <= i /\ i <= row.updated_at
               /\ row.created_at \in WrittenAt(k)
               /\ row.updated_at \in WrittenAt(k)

C19_Witness ==
  /\ Len(log) = 3
  /\ Len(table) = 2
  /\ table[1].source_id = table[2].source_id
  /\ table[1].entity_type # table[2].entity_type
  /\ table[1].created_at = 1 /\ table[1].updated_at = 3
  /\ table[2].created_at = 2 /\ table[2].updated_at = 2
  /\ table[1].sync_status # table[2].sync_status

\* the list the ordered rule of the change detector puts a record in
RuleClass(existing, hash) ==
  IF existing = NoRecord THEN "new"
  ELSE IF existing.syncStatus = "pending" THEN "changed"
  ELSE IF existing.dataHash # hash THEN "changed"
  ELSE "unchanged"

\* the records of one entity type in what was fetched
FetchedOf(data, entityType) ==
  IF entityType = "client" THEN data.clients
  ELSE IF entityType = "appointment" THEN data.appointments
  ELSE data.sessionNotes

\* C20: in the change set of a ledger-backed run every fetched record is in
\* the list the ordered rule gives it (no entry: new; pending: changed; hash
\* differs: changed; otherwise unchanged) and in no other, and the three
\* lists hold as many records as were fetched.
C20_DetectChangesPartition ==
  LedgerRun =>
    \A t \in AllTypes :
      LET cs == ChangeSetOf(changes, t)
          input == FetchedOf(fetchPlaySpaceData(source), t)
      IN /\ Len(cs.new) + Len(cs.changed) + Len(cs.unchanged) = Len(input)
         /\ \A i \in 1..Len(input) :
              LET e == input[i]
                  cls == RuleClass(startLedger[<<Get(e, "sourceId"), t>>], hashEntity(e))
              IN \A l \in {"new", "changed", "unchanged"} :
                   (e \in Range(cs[l])) <=> (l = cls)

C20_Witness ==
  /\ pc = "started" /\ opts.useLedger
  /\ changes.clients.new # <<>>
  /\ \E k \in Keys :
       /\ startLedger[k] # NoRecord
       /\ startLedger[k].syncStatus = "synced"
       /\ startLedger[k].dataHash # hashEntity(CurrentEntity(k))
       /\ CurrentEntity(k) \in Range(ChangeSetOf(changes, k[2]).changed)
  /\ \E k \in Keys :
       /\ startLedger[k] # NoRecord
       /\ startLedger[k].syncStatus = "failed"
       /\ CurrentEntity(k) \in Range(ChangeSetOf(changes, k[2]).unchanged)

\* C21: detectChanges and detectAllChanges perform no ledger writes: just
\* after change detection the Ledger Entries and the Run Records are what
\* they were just before it, whatever the fetched data and the ledger.
C21_DetectWritesNothing ==
  pc = "detected" => snapshot = [records |-> ledger, runs |-> runs]

C21_Witness ==
  /\ pc = "detected"
  /\ \E k \in Keys : ledger[k] # NoRecord /\ ledger[k].syncStatus = "synced"
  /\ \E r \in RunIds : runs[r] # NoRun
  /\ changes.clients.changed # <<>>
  /\ changes.clients.unchanged # <<>>

\* C22: a request that arrives while a run is in progress is rejected with a
\* conflict status (409) and starts no run: no Run Record beyond the one of
\* the run in progress comes to exist.
C22_ConcurrentTriggerRejected ==
  overlapResponse # NoResponse =>
    /\ overlapResponse.http = 409
    /\ \A r \in RunIds : r > runId => runs[r] = NoRun

\* C23: within a run the items are processed one after the other: at most one
\* adapter operation is in flight, and while one is, every adapter operation
\* started earlier in the run has ended with its result appended and, in a
\* ledger-backed run, its outcome (synced or failed) written to the ledger.
C23_StrictlySequential ==
  /\ inFlight \in {0, 1}
  /\ (inFlight = 1) <=> (pc = "calling")
  /\ pc = "calling" =>
       \A i \in 1..(Len(calls) - 1) :
         /\ \E j \in 1..Len(results) :
              results[j].sourceId = calls[i][1] /\ results[j].entity = calls[i][2]
         /\ opts.useLedger =>
              /\ ledger[calls[i]] # NoRecord
              /\ ledger[calls[i]].syncStatus \in {"synced", "failed"}

C23_Witness ==
  /\ pc = "calling" /\ opts.useLedger
  /\ Len(calls) >= 3
  /\ calls[1] \in thrown
  /\ ledger[calls[2]].syncStatus = "synced"

\* C24: on the full sync path the source phase ends before the destination
\* phase begins: while the fetch is under way the request has acquired no
\* session, made no adapter call, written no Ledger Entry and created no Run
\* Record; and from runSync's start to its end every source request of the
\* fetch has returned and none is made again.
C24_FetchBeforeDestination ==
  /\ pc \in {"fetching", "fetch_failed"} =>
       /\ connects = 0 /\ browser = "none" /\ session = "null"
       /\ calls = <<>> /\ results = <<>> /\ inFlight = 0
       /\ ~marked
       /\ ledger = startLedger
       /\ \A r \in RunIds : r > used => runs[r] = NoRun
  /\ LedgerRun => fetchStep = NumFetchSteps

C24_Witness ==
  /\ pc = "calling" /\ opts.useLedger
  /\ runId = 2
  /\ fetchStep = NumFetchSteps
  /\ \E k \in Keys : startLedger[k] # NoRecord

RECURSIVE Tally(_, _)
\* the number of results with the given action, counted one by one
Tally(rs, action) ==
  IF rs = <<>> THEN 0
  ELSE (IF Head(rs).action = action THEN 1 ELSE 0) + Tally(Tail(rs), action)

CountsMatch(counts, rs) ==
  /\ counts.created = Tally(rs, "created")
  /\ counts.updated = Tally(rs, "updated")
  /\ counts.skipped = Tally(rs, "skipped")
  /\ counts.failed = Tally(rs, "failed")
  /\ counts.created + counts.updated + counts.skipped + counts.failed = Len(rs)

\* C26: the counts are computed from the result list: each count is the
\* number of results with that action and the four add up to the length of
\* the list; this holds for the summary returned by a ledger-backed and by a
\* non-ledger run, and for the counts written to the Run Record both when the
\* run returns and when it fails at run level.
C26_CountsFromResults ==
  /\ (pc = "done" /\ outcome = "returned") =>
       /\ summary.results = results
       /\ CountsMatch(summary.counts, results)
       /\ opts.useLedger => CountsMatch(runs[runId].counts, results)
  /\ (pc \in {"finally", "done"} /\ runErr # Null /\ opts.useLedger) =>
       CountsMatch(runs[runId].counts, results)

C26_Witness ==
  /\ pc = "done" /\ outcome = "threw" /\ opts.useLedger
  /\ Len(results) >= 2
  /\ runs[runId].counts.created >= 1
  /\ runs[runId].counts.failed >= 1

\* C27: for every run that returned its summary (no run-level error), on the
\* inline-data route and on the full run route, the status in the response
\* is completed_with_errors exactly when counts.failed > 0 and completed
\* exactly when counts.failed = 0, and the response carries the summary.
C27_ResponseStatus ==
  (pc = "done" /\ outcome = "returned") =>
    /\ response # NoResponse
    /\ response.summary = summary
    /\ (response.status = "completed_with_errors") <=> (summary.counts.failed > 0)
    /\ (response.status = "completed") <=> (summary.counts.failed = 0)
    /\ (summary.counts.failed > 0) <=> (Tally(results, "failed") > 0)

C27_Witness ==
  /\ pc = "done" /\ outcome = "returned"
  /\ ~opts.useLedger
  /\ response.status = "completed_with_errors"
  /\ response.http = 207
  /\ summary.counts.created >= 1

\* the new and changed records of the selected entity types
SelectedToPush ==
  UNION {Range(ChangeSetOf(changes, t).new) \cup Range(ChangeSetOf(changes, t).changed) :
         t \in opts.entities}

\* the unchanged clients that a run delivers again for want of a reference
Backfilled ==
  IF "client" \in opts.entities
  THEN {c \in Range(changes.clients.unchanged) :
          LET record == startLedger[<<Get(c, "sourceId"), "client">>]
          IN record = NoRecord \/ Falsy(record.owlReference)}
  ELSE {}

\* a finished ledger-backed run that pushed, and in which the session was
\* acquired and no adapter call returned failed or threw
DestinationAcceptedAll ==
  /\ pc = "done" /\ opts.useLedger /\ ~opts.dryRun
  /\ phase >= 1
  /\ thrown = {}
  /\ \A j \in 1..Len(results) :
       results[j].action = "failed" => results[j].error = LedgerErrMsg

\* every pushed record is synced with its fingerprint, nothing failed, one
\* result per item, and the Run Record is completed
EverythingSynced ==
  /\ \A e \in SelectedToPush :
       \E k \in Keys :
         /\ e = CurrentEntity(k)
         /\ ledger[k] # NoRecord
         /\ ledger[k].syncStatus = "synced"
         /\ ledger[k].dataHash = hashEntity(e)
  /\ outcome = "returned"
  /\ summary.counts.failed = 0
  /\ Len(results) = Cardinality(SelectedToPush) + Cardinality(Backfilled)
  /\ runs[runId].status = "completed"

Relevant(rec) ==
  {rec[i] : i \in {j \in 1..Len(rec) : rec[j][1] \notin {"id", "source", "sourceId"}}}

\* the same, with undefined read as null
RelevantNullable(rec) == {<<p[1], Coalesce(p[2], Null)>> : p \in Relevant(rec)}

FieldsOf(rec) == {p[1] : p \in Relevant(rec)}

\* the records agree on every field, a missing, an undefined and a null
\* value counting as the same
SameUpToMissing(a, b) ==
  \A f \in FieldsOf(a) \cup FieldsOf(b) :
    Coalesce(Get(a, f), Null) = Coalesce(Get(b, f), Null)

\* C30: hashEntity gives the same fingerprint to a record in which a field
\* other than id, source and sourceId is absent, to one in which it is
\* present and undefined, and to one in which it is null.
C30_MissingIsNull ==
  (hashA # NoHash /\ SameUpToMissing(recA, recB)) => hashA = hashB

\* the new and changed records of one entity type
NewAndChanged(t) ==
  Range(ChangeSetOf(changes, t).new) \cup Range(ChangeSetOf(changes, t).changed)

\* C31: in a ledger-backed run with client selected the items of the client
\* loop are exactly the new clients, the changed clients and the unchanged
\* clients whose ledger entry has no reference; an unchanged client with a
\* reference is never handed to the adapter, and of the appointments and
\* session notes only new and changed ones are.
C31_DeliveredItems ==
  (LedgerRun /\ ~opts.dryRun) =>
    /\ (phase = 1 /\ "client" \in opts.entities) =>
         /\ Range(items) = NewAndChanged("client") \cup Backfilled
         /\ Len(items) = Cardinality(Range(items))
    /\ \A i \in 1..Len(calls) :
         LET k == calls[i]
         IN IF k[2] = "client"
            THEN CurrentEntity(k) \in NewAndChanged("client") \cup Backfilled
            ELSE CurrentEntity(k) \in NewAndChanged(k[2])

C31_Witness ==
  /\ LedgerRun /\ ~opts.dryRun /\ pc = "done" /\ outcome = "returned"
  /\ opts.entities = AllTypes
  /\ \E c \in Backfilled : <<Get(c, "sourceId"), "client">> \in Range(calls)
  /\ \E c \in Range(changes.clients.unchanged) :
       /\ c \notin Backfilled
       /\ <<Get(c, "sourceId"), "client">> \notin Range(calls)
  /\ changes.sessionNotes.unchanged # <<>>

\* C32: an item the adapter reported as skipped, and whose ledger write went
\* through, has a synced entry with the fingerprint the record had when it
\* was delivered and with the returned reference if there was one; a later
\* ledger-backed run over the unmodified record classifies it as unchanged.
C32_SkippedIsSynced ==
  \A s \in skipped :
    /\ ledger[s.key] # NoRecord
    /\ ledger[s.key].syncStatus = "synced"
    /\ ledger[s.key].dataHash = s.hash
    /\ ~Falsy(s.reference) => ledger[s.key].owlReference = s.reference
    /\ (LedgerRun /\ runId > s.run /\ s.hash = hashEntity(CurrentEntity(s.key))) =>
         CurrentEntity(s.key) \in Range(ChangeSetOf(changes, s.key[2]).unchanged)

C32_Witness ==
  /\ LedgerRun
  /\ \E s \in skipped :
       /\ runId > s.run
       /\ ~Falsy(s.reference)
       /\ CurrentEntity(s.key) \in Range(ChangeSetOf(changes, s.key[2]).unchanged)
  /\ \E s \in skipped : s.key[2] = "sessionNote"

\* the keys of the items the run has a result for
ResultKeys == {<<results[j].sourceId, results[j].entity>> : j \in 1..Len(results)}

\* C33: when a ledger-backed run that pushed returns normally, every item it
\* processed has an entry with status synced or failed, and no entry is
\* pending unless it was pending before the run and the run did not process
\* the item.
C33_NoPendingLeft ==
  (pc = "done" /\ outcome = "returned" /\ opts.useLedger /\ ~opts.dryRun) =>
    /\ \A k \in Range(calls) \cup ResultKeys :
         /\ ledger[k] # NoRecord
         /\ ledger[k].syncStatus \in {"synced", "failed"}
    /\ \A k \in Keys :
         (ledger[k] # NoRecord /\ ledger[k].syncStatus = "pending") =>
           /\ startLedger[k] # NoRecord /\ startLedger[k].syncStatus = "pending"
           /\ k \notin Range(calls) \cup ResultKeys

C33_Witness ==
  /\ pc = "done" /\ outcome = "returned" /\ opts.useLedger /\ ~opts.dryRun
  /\ thrown # {}
  /\ \E j \in 1..Len(results) : results[j].action = "created"
  /\ \E j \in 1..Len(results) : results[j].action = "skipped"
  /\ \E j \in 1..Len(results) :
       results[j].action = "failed" /\ results[j].error = NoClientMsg

\* C34: every item processed in a run has exactly one entry in the result
\* list, on every path, so the four counts add up to the number of items for
\* which delivery was attempted.
C34_OneResultPerItem ==
  /\ \A k \in ResultKeys :
       Cardinality({j \in 1..Len(results) :
                      <<results[j].sourceId, results[j].entity>> = k}) = 1
  /\ Range(calls) \subseteq ResultKeys \cup (IF pc = "calling" THEN {ItemKey} ELSE {})
  /\ (pc = "done" /\ outcome = "returned") =>
       summary.counts.created + summary.counts.updated + summary.counts.skipped
         + summary.counts.failed = Cardinality(ResultKeys)

\* a run without the ledger is executing or has just ended
PlainRun == pc \in {"started", "item", "calling", "catch", "finally", "complete", "done"}
              /\ ~opts.useLedger

\* C35: a run with ledger-backed mode disabled writes nothing to the ledger
\* on any path: no Ledger Entry is inserted or updated and no Run Record of
\* the run is created or completed.
C35_PlainRunWritesNothing ==
  PlainRun =>
    /\ ledger = startLedger
    /\ ~marked
    /\ runs[runId] = NoRun
    /\ createCount[runId] = 0
    /\ finalizeCount[runId] = 0

C35_Witness ==
  /\ PlainRun /\ pc = "done" /\ ~opts.dryRun
  /\ Len(calls) >= 3
  /\ thrown # {}
  /\ \E k \in Keys : ledger[k] # NoRecord

\* the supplied records of the selected entity types
SuppliedKeys == {k \in Keys : k[2] \in opts.entities}

\* C36: runSyncFromData takes every supplied record as new, whatever the
\* ledger holds and whatever earlier invocations delivered: the change set of
\* an inline-data run has every record under new, and when the push has run
\* through each supplied record of a selected type has been handed to the
\* adapter exactly once.
C36_InlineDataIsAllNew ==
  PlainRun =>
    /\ \A t \in AllTypes :
         /\ Range(ChangeSetOf(changes, t).new) = {CurrentEntity(k) : k \in {q \in Keys : q[2] = t}}
         /\ ChangeSetOf(changes, t).changed = <<>>
         /\ ChangeSetOf(changes, t).unchanged = <<>>
    /\ (pc = "done" /\ outcome = "returned" /\ ~opts.dryRun) =>
         /\ Range(calls) = SuppliedKeys
         /\ Len(calls) = Cardinality(SuppliedKeys)

C36_Witness ==
  /\ PlainRun /\ pc = "done" /\ outcome = "returned" /\ ~opts.dryRun
  /\ runId = 2
  /\ opts.entities = AllTypes
  /\ \A k \in Keys : ledger[k] # NoRecord /\ ledger[k].syncStatus = "synced"
  /\ Len(calls) = Cardinality(Keys)

\* runSync is executing or has just ended
InRun == pc \in {"started", "item", "calling", "catch", "finally", "complete", "done"}

\* C37: a run leaves the entity types it did not select untouched: it makes
\* no adapter call and pushes no result for a record of such a type, the
\* Ledger Entry of such a record is what it was when the run started, and the
\* finalized Run Record lists exactly the selected types.
C37_UnselectedUntouched ==
  InRun =>
    /\ \A k \in Keys :
         k[2] \notin opts.entities =>
           /\ k \notin Range(calls)
           /\ k \notin ResultKeys
           /\ ledger[k] = startLedger[k]
    /\ (phase \in 1..NumPhases) => EntityTypes[phase] \in opts.entities
    /\ (opts.useLedger /\ finalizeCount[runId] = 1) =>
         runs[runId].entitiesSynced = opts.entities

C37_Witness ==
  /\ InRun /\ pc = "done" /\ opts.useLedger /\ ~opts.dryRun
  /\ opts.entities = {"client"}
  /\ calls # <<>>
  /\ runs[runId].entitiesSynced = {"client"}
  /\ \E k \in Keys :
       /\ k[2] = "sessionNote"
       /\ ledger[k] # NoRecord /\ ledger[k].syncStatus = "pending"
  /\ \E k \in Keys : k[2] = "appointment" /\ ledger[k] # NoRecord

\* the entry of k was synced with a reference when the run started
SyncedWithReference(k) ==
  /\ startLedger[k] # NoRecord
  /\ startLedger[k].syncStatus = "synced"
  /\ ~Falsy(startLedger[k].owlReference)

\* C38: when a ledger-backed run processes a client whose entry was synced
\* with a reference before the run, createOrUpdateClient finds that entry
\* synced with its reference (step 1, the ledger check) and answers skipped
\* with that reference, whatever the name search or the create would do.
C38_LedgerCheckResolves ==
  (LedgerRun /\ ~opts.dryRun) =>
    /\ (pc = "calling" /\ phase = 1 /\ SyncedWithReference(ItemKey)) =>
         LET ledgerRecord == findRecord(ledger, ItemKey[1], "client")
         IN /\ ledgerRecord # NoRecord
            /\ ledgerRecord.syncStatus = "synced"
            /\ ~Falsy(ledgerRecord.owlReference)
    /\ \A j \in 1..Len(results) :
         LET k == <<results[j].sourceId, results[j].entity>>
         IN (k[2] = "client" /\ SyncedWithReference(k) /\ k \notin thrown /\ ~runFaulted) =>
              /\ results[j].action = "skipped"
              /\ results[j].owlReference = startLedger[k].owlReference

\* the API requests sent for the request being served, in order
Gets == SelectSeq(req.trace, LAMBDA e : e[1] = "get")

\* the position in the trace of the first API request
FirstGet == CHOOSE i \in 1..Len(req.trace) :
              /\ req.trace[i][1] = "get"
              /\ \A j \in 1..(i - 1) : req.trace[j][1] # "get"

\* C39: request retries at most once, and only on auth expiry: the API is
\* asked at most twice; a second request is sent only when the first was
\* answered 401, after the token was discarded and one re-authentication
\* obtained a new one; whatever is not OK in the retry, a second 401
\* included, raises, as does a failed re-authentication and any other error
\* response to the first request; the request returns only on an OK response.
C39_RetryOnceOnAuthExpiry ==
  /\ Len(Gets) <= 2
  /\ \A i \in 1..Len(Gets) : Gets[i][2] # NoToken
  /\ req.pc = "expired" => req.accessToken = NoToken
  /\ Len(Gets) = 2 =>
       /\ Gets[1][3] = 401
       /\ req.trace[FirstGet + 1] = <<"auth", TRUE>>
       /\ req.trace[FirstGet + 2] = Gets[2]
       /\ Gets[2][2] # Gets[1][2]
       /\ req.pc = IF Ok(Gets[2][3]) THEN "returned" ELSE "raised"
  /\ (Len(Gets) = 1 /\ req.pc \in {"returned", "raised"}) =>
       IF Gets[1][3] = 401
       THEN req.pc = "raised" /\ req.trace[Len(req.trace)] = <<"auth", FALSE>>
       ELSE req.pc = IF Ok(Gets[1][3]) THEN "returned" ELSE "raised"
  /\ (Len(Gets) >= 1 /\ Gets[1][3] # 401) => Len(Gets) = 1 /\ Len(req.trace) = FirstGet
  /\ req.pc = "returned" => Len(Gets) >= 1 /\ Ok(Gets[Len(Gets)][3])

C39_Witness ==
  /\ req.pc = "raised"
  /\ req.n = 2
  /\ Len(Gets) = 2
  /\ Gets[2][3] = 401
  /\ FirstGet = 1

====
